---- MODULE Spec2Model ----
(***************************************************************************)
(* The ranking pipeline of src/main.py (query analysis, weights, scoring,  *)
(* ranking, sentence extraction, metrics, the embedding cache) and the     *)
(* query-understanding validation of src/validate_system.py.               *)
(*                                                                         *)
(* A Python str is a sequence of one-character strings, so that lower(),   *)
(* the substring test `in` and the regular expressions are computed and    *)
(* not assumed.  A float is a fixed-point integer with Scale units to 1.0; *)
(* where the exact value of a float matters (SpecFloatWeights) it is the   *)
(* binary64 number Python computes.                                        *)
(***************************************************************************)
EXTENDS Integers, Sequences, FiniteSets, TLC

VARIABLES
    pc,                 \* where the running function is
    persona,            \* the persona role of the query
    job_to_be_done,     \* the task of the query
    pos_tags,           \* what nltk.pos_tag answers for this query
    query_analysis,     \* the result of analyze_query_structure
    weights,            \* the result of calculate_dynamic_weights
    model,              \* the embedding model in use
    query_embedding,    \* the embedding of the query
    sections,           \* the section records (shared by both lists)
    ranked_sections,    \* the sorted list, as positions in sections
    i,                  \* the loop index of the running function
    runs,               \* how many times analyze_sections has returned
    previous,           \* the section records as the run before left them
    subsection_results, \* the list intelligent_subsection_analysis builds
    results,            \* the results of validate_query_understanding
    scored_section,     \* the section record given to calculate_multi_factor_score
    score_parts,        \* what calculate_multi_factor_score computed for it
    sentence_scores,    \* the scores of the sentences of its text
    refined,            \* the refined_text built from them
    metrics,            \* the result of generate_performance_metrics
    embedding_cache,    \* _embedding_cache: digest -> vector
    lru_entries,        \* the entries of the lru_cache wrapper, least recent first
    encode_calls,       \* how many times model.encode was invoked, per text
    calls,              \* how many calls of get_cached_embedding were made
    returned            \* the outcome of the latest call

vars == <<pc, persona, job_to_be_done, pos_tags, query_analysis, weights, model,
          query_embedding, sections, ranked_sections, i, runs, previous,
          subsection_results, results, scored_section,
          score_parts, sentence_scores, refined, metrics, embedding_cache,
          lru_entries, encode_calls, calls, returned>>

\* ---------------------------------------------------------------- bounds
\* Words per generated task text.
MaxWords == 2

\* Sections in a list given to analyze_sections.
MaxSections == 3

\* Calls of analyze_sections on the same list.
MaxRuns == 2

\* Sections in a list given to intelligent_subsection_analysis.
MaxRanked == 6

\* Core entities and constraints (of each polarity) of a query given to
\* calculate_dynamic_weights.
MaxEntityCount == 7
MaxConstraintCount == 3

\* Calls of get_cached_embedding.
MaxCalls == 4

\* Entries the lru_cache wrapper of get_cached_embedding keeps (maxsize, which is
\* 1000 in the program).
maxsize == 2

\* Sections in a ranked list given to generate_performance_metrics (longer
\* lists of fixed content are given to it as well).
MaxListed == 4

\* ------------------------------------------------------------ Python str
UpperCase == <<"A","B","C","D","E","F","G","H","I","J","K","L","M","N","O","P","Q","R","S","T","U",
    "V","W","X","Y","Z">>
LowerCase == <<"a","b","c","d","e","f","g","h","i","j","k","l","m","n","o","p","q","r","s","t","u",
    "v","w","x","y","z">>
DigitChars == {"0", "1", "2", "3", "4", "5", "6", "7", "8", "9"}

SeqToSet(s) == {s[k] : k \in 1..Len(s)}

UpperChars == SeqToSet(UpperCase)
LowerOf == [c \in UpperChars |-> LowerCase[CHOOSE k \in 1..Len(UpperCase) : UpperCase[k] = c]]

\* str.lower() on one character and on a string.
lower_char(c) == IF c \in UpperChars THEN LowerOf[c] ELSE c

lower(s) == [k \in 1..Len(s) |-> lower_char(s[k])]

\* Python's `sub in s` on strings: sub occurs in s as a contiguous substring.
Contains(sub, s) ==
    \E p \in 0..(Len(s) - Len(sub)) : \A k \in 1..Len(sub) : s[p + k] = sub[k]

\* any(word in s for word in words)
AnyIn(words, s) == \E w \in words : Contains(w, s)

\* f"{a} {b}"
Concat2(a, b) == a \o <<" ">> \o b

\* --------------------------------------------------------------- Python re
\* \w of the re module.
WordChars == SeqToSet(LowerCase) \cup SeqToSet(UpperCase) \cup DigitChars \cup {"_"}
IsWordChar(c) == c \in WordChars

\* \b holds at offset p of s (between s[p] and s[p+1]).
WordBoundary(s, p) ==
    (p >= 1 /\ IsWordChar(s[p])) # (p < Len(s) /\ IsWordChar(s[p + 1]))

\* A faulty matcher for C9: the alternative is not required to end at a word
\* boundary.
RECURSIVE match_from_prefix(_, _, _, _)
match_from_prefix(alt, k, s, p) ==
    IF k > Len(alt) THEN p
    ELSE IF alt[k] = ".?"
         THEN LET taken == IF p < Len(s) THEN match_from_prefix(alt, k + 1, s, p + 1) ELSE -1
              IN  IF taken # -1 THEN taken ELSE match_from_prefix(alt, k + 1, s, p)
         ELSE IF p < Len(s) /\ s[p + 1] = alt[k]
              THEN match_from_prefix(alt, k + 1, s, p + 1)
              ELSE -1

\* An alternative of a pattern is a sequence of literal characters and ".?" elements.
\* match_from: the offset at which alt[k..] followed by \b ends when matched at
\* offset p of s, -1 if it does not match; ".?" is greedy and backtracks.
RECURSIVE match_from(_, _, _, _)
match_from(alt, k, s, p) ==
    IF k > Len(alt)
    THEN IF WordBoundary(s, p) THEN p ELSE -1
    ELSE IF alt[k] = ".?"
         THEN LET taken == IF p < Len(s) THEN match_from(alt, k + 1, s, p + 1) ELSE -1
              IN  IF taken # -1 THEN taken ELSE match_from(alt, k + 1, s, p)
         ELSE IF p < Len(s) /\ s[p + 1] = alt[k]
              THEN match_from(alt, k + 1, s, p + 1)
              ELSE -1

\* r'\b(alt1|alt2|...)\b' matched at offset p: the end offset of the first
\* alternative (in order) that matches, -1 if none does.
RECURSIVE match_alternatives(_, _, _, _)
match_alternatives(pattern, a, s, p) ==
    IF a > Len(pattern) THEN -1
    ELSE LET e == match_from(pattern[a], 1, s, p)
         IN  IF e # -1 THEN e ELSE match_alternatives(pattern, a + 1, s, p)

match_at(pattern, s, p) ==
    IF WordBoundary(s, p) THEN match_alternatives(pattern, 1, s, p) ELSE -1

\* re.findall(pattern, s): the non-overlapping matches, scanning left to right.
RECURSIVE findall_from(_, _, _)
findall_from(pattern, s, p) ==
    LET found == {q \in p..(Len(s) - 1) : match_at(pattern, s, q) > q}
    IN  IF found = {} THEN <<>>
        ELSE LET q == CHOOSE q \in found : \A r \in found : q <= r
                 e == match_at(pattern, s, q)
             IN  <<SubSeq(s, q + 1, e)>> \o findall_from(pattern, s, e)

findall(pattern, s) == findall_from(pattern, s, 0)

\* ------------------------------------------------------ extract_constraints
positive_patterns == <<
    <<<<"v","e","g","e","t","a","r","i","a","n">>, <<"v","e","g","a","n">>, <<"g","l","u","t","e",
        "n",".?","f","r","e","e">>, <<"d","a","i","r","y",".?","f","r","e","e">>, <<"n","u","t",".?",
        "f","r","e","e">>>>,
    <<<<"b","u","d","g","e","t",".?","f","r","i","e","n","d","l","y">>, <<"a","f","f","o","r","d",
        "a","b","l","e">>, <<"c","h","e","a","p">>, <<"i","n","e","x","p","e","n","s","i","v","e">>>>,
    <<<<"q","u","i","c","k">>, <<"f","a","s","t">>, <<"e","a","s","y">>, <<"s","i","m","p","l",
        "e">>, <<"c","o","n","v","e","n","i","e","n","t">>>>,
    <<<<"h","e","a","l","t","h","y">>, <<"o","r","g","a","n","i","c">>, <<"n","a","t","u","r","a",
        "l">>, <<"f","r","e","s","h">>>>,
    <<<<"c","o","r","p","o","r","a","t","e">>, <<"b","u","s","i","n","e","s","s">>, <<"p","r","o",
        "f","e","s","s","i","o","n","a","l">>, <<"f","o","r","m","a","l">>>>,
    <<<<"g","r","o","u","p">>, <<"s","h","a","r","e","d">>, <<"c","o","l","l","a","b","o","r","a",
        "t","i","v","e">>, <<"t","e","a","m">>>>,
    <<<<"s","t","u","d","e","n","t">>, <<"y","o","u","t","h">>, <<"y","o","u","n","g">>, <<"c","o","l",
        "l","e","g","e">>>>,
    <<<<"l","u","x","u","r","y">>, <<"p","r","e","m","i","u","m">>, <<"h","i","g","h",".?","e","n",
        "d">>, <<"e","x","c","l","u","s","i","v","e">>>>,
    <<<<"u","r","g","e","n","t">>, <<"i","m","m","e","d","i","a","t","e">>, <<"a","s","a","p">>, <<"q",
        "u","i","c","k","l","y">>>>,
    <<<<"c","o","m","p","r","e","h","e","n","s","i","v","e">>, <<"d","e","t","a","i","l","e",
        "d">>, <<"t","h","o","r","o","u","g","h">>, <<"c","o","m","p","l","e","t","e">>>> >>

negative_patterns == <<
    <<<<"m","e","a","t">>, <<"b","e","e","f">>, <<"p","o","r","k">>, <<"c","h","i","c","k","e",
        "n">>, <<"f","i","s","h">>>>,
    <<<<"e","x","p","e","n","s","i","v","e">>, <<"l","u","x","u","r","y">>, <<"p","r","e","m","i",
        "u","m">>, <<"h","i","g","h",".?","e","n","d">>, <<"e","x","c","l","u","s","i","v","e">>>>,
    <<<<"b","r","e","a","k","f","a","s","t">>, <<"l","u","n","c","h">>>>,
    <<<<"s","l","o","w">>, <<"c","o","m","p","l","i","c","a","t","e","d">>, <<"d","i","f","f","i",
        "c","u","l","t">>, <<"c","o","m","p","l","e","x">>>>,
    <<<<"u","n","h","e","a","l","t","h","y">>, <<"p","r","o","c","e","s","s","e","d">>, <<"a","r",
        "t","i","f","i","c","i","a","l">>>>,
    <<<<"c","a","s","u","a","l">>, <<"i","n","f","o","r","m","a","l">>, <<"r","e","l","a","x","e","d">>>>,
    <<<<"i","n","d","i","v","i","d","u","a","l">>, <<"p","e","r","s","o","n","a","l">>, <<"p","r",
        "i","v","a","t","e">>>>,
    <<<<"a","d","u","l","t">>, <<"s","e","n","i","o","r">>, <<"e","l","d","e","r","l","y">>>>,
    <<<<"l","o","w",".?","p","r","i","o","r","i","t","y">>, <<"n","o","n",".?","u","r","g","e","n",
        "t">>, <<"w","h","e","n","e","v","e","r">>>>,
    <<<<"b","r","i","e","f">>, <<"s","u","m","m","a","r","y">>, <<"o","v","e","r","v","i","e",
        "w">>, <<"b","a","s","i","c">>>> >>

\* The loops over the patterns: every match of every pattern (a list in the
\* code, deduplicated by set() on return).
pattern_matches(patterns, text_lower) ==
    UNION {SeqToSet(findall(patterns[k], text_lower)) : k \in 1..Len(patterns)}

\* sub occurs in s as a whole word.
ContainsWord(sub, s) ==
    \E p \in 0..(Len(s) - Len(sub)) :
        /\ \A k \in 1..Len(sub) : s[p + k] = sub[k]
        /\ WordBoundary(s, p)
        /\ WordBoundary(s, p + Len(sub))

\* Faulty context-aware rules for C8: the trigger words are looked for as whole words.
context_negatives_whole_word(text_lower) ==
    (IF ContainsWord(<<"d","i","n","n","e","r">>, text_lower) \/ ContainsWord(<<"e","v","e","n","i","n",
        "g">>, text_lower)
     THEN {<<"b","r","e","a","k","f","a","s","t">>, <<"l","u","n","c","h">>, <<"m","o","r","n","i",
              "n","g">>, <<"a","f","t","e","r","n","o","o","n">>} ELSE {})
    \cup
    (IF ContainsWord(<<"b","u","d","g","e","t">>, text_lower) \/ ContainsWord(<<"a","f","f","o","r","d","a",
        "b","l","e">>, text_lower)
     THEN {<<"l","u","x","u","r","y">>, <<"p","r","e","m","i","u","m">>, <<"e","x","p","e","n","s",
              "i","v","e">>, <<"h","i","g","h","-","e","n","d">>} ELSE {})
    \cup
    (IF ContainsWord(<<"v","e","g","e","t","a","r","i","a","n">>, text_lower) \/ ContainsWord(<<"v","e","g",
        "a","n">>, text_lower)
     THEN {<<"m","e","a","t">>, <<"b","e","e","f">>, <<"p","o","r","k">>, <<"c","h","i","c","k","e",
              "n">>, <<"f","i","s","h">>} ELSE {})

\* The three context-aware rules, which test with `in` (a substring test).
context_negatives(text_lower) ==
    (IF Contains(<<"d","i","n","n","e","r">>, text_lower) \/ Contains(<<"e","v","e","n","i","n",
        "g">>, text_lower)
     THEN {<<"b","r","e","a","k","f","a","s","t">>, <<"l","u","n","c","h">>, <<"m","o","r","n","i",
              "n","g">>, <<"a","f","t","e","r","n","o","o","n">>} ELSE {})
    \cup
    (IF Contains(<<"b","u","d","g","e","t">>, text_lower) \/ Contains(<<"a","f","f","o","r","d","a","b",
        "l","e">>, text_lower)
     THEN {<<"l","u","x","u","r","y">>, <<"p","r","e","m","i","u","m">>, <<"e","x","p","e","n","s",
              "i","v","e">>, <<"h","i","g","h","-","e","n","d">>} ELSE {})
    \cup
    (IF Contains(<<"v","e","g","e","t","a","r","i","a","n">>, text_lower) \/ Contains(<<"v","e","g","a",
        "n">>, text_lower)
     THEN {<<"m","e","a","t">>, <<"b","e","e","f">>, <<"p","o","r","k">>, <<"c","h","i","c","k","e",
              "n">>, <<"f","i","s","h">>} ELSE {})

extract_constraints(text) ==
    LET text_lower == lower(text)
    IN  [positive |-> pattern_matches(positive_patterns, text_lower),
         negative |-> pattern_matches(negative_patterns, text_lower)
                      \cup context_negatives(text_lower)]

\* ---------------------------------------------------- extract_core_entities
\* nltk.word_tokenize: words (hyphenated words stay whole) and punctuation marks.
IsTokenChar(c) == IsWordChar(c) \/ c = "-"

\* The positions where a token starts, and where the token starting at p ends.
token_starts(s) ==
    {p \in 1..Len(s) :
        /\ s[p] # " "
        /\ (~IsTokenChar(s[p]) \/ p = 1 \/ ~IsTokenChar(s[p - 1]))}

token_end(s, p) ==
    IF ~IsTokenChar(s[p]) THEN p
    ELSE CHOOSE e \in p..Len(s) :
            /\ \A k \in p..e : IsTokenChar(s[k])
            /\ (e = Len(s) \/ ~IsTokenChar(s[e + 1]))

word_tokenize(s) ==
    LET starts == token_starts(s)
        nth(k) == CHOOSE p \in starts : Cardinality({q \in starts : q < p}) = k - 1
    IN  [k \in 1..Cardinality(starts) |-> SubSeq(s, nth(k), token_end(s, nth(k)))]

\* nltk.pos_tag is a trained tagger outside the repository: its answer for a
\* token sequence is one of these.  A word of NounLexicon is tagged NN or not
\* (the tagger's choice, token by token), a word of AdjectiveLexicon is JJ, an
\* article is DT and every other token gets a tag the code does not look at.
NounLexicon ==
    {<<"m","e","n","u">>, <<"d","i","n","n","e","r">>, <<"b","u","f","f","e","t">>, <<"g","a","t","h",
        "e","r","i","n","g">>,
     <<"l","i","t","e","r","a","t","u","r","e">>, <<"r","e","v","i","e","w">>, <<"m","e","t","h","o",
         "d","o","l","o","g","i","e","s">>, <<"d","a","t","a","s","e","t","s">>, <<"b","e","n","c",
         "h","m","a","r","k","s">>,
     <<"r","e","v","e","n","u","e">>, <<"t","r","e","n","d","s">>, <<"i","n","v","e","s","t","m","e",
         "n","t","s">>, <<"s","t","r","a","t","e","g","i","e","s">>,
     <<"c","o","n","c","e","p","t","s">>, <<"m","e","c","h","a","n","i","s","m","s">>, <<"k","i","n",
         "e","t","i","c","s">>, <<"p","r","e","p","a","r","a","t","i","o","n">>,
     <<"e","v","e","n","i","n","g">>, <<"c","h","e","f">>}

AdjectiveLexicon == {<<"v","e","g","e","t","a","r","i","a","n">>, <<"c","o","r","p","o","r","a","t",
    "e">>, <<"c","o","m","p","r","e","h","e","n","s","i","v","e">>, <<"a","f","f","o","r","d","a",
    "b","l","e">>, <<"k","e","y">>}

Articles == {<<"a">>, <<"a","n">>, <<"t","h","e">>}

pos_tag(tokens) ==
    LET free == {k \in 1..Len(tokens) : tokens[k] \in NounLexicon}
    IN  { [k \in 1..Len(tokens) |->
              IF k \in free THEN choice[k]
              ELSE IF tokens[k] \in AdjectiveLexicon THEN "JJ"
              ELSE IF tokens[k] \in Articles THEN "DT" ELSE "XX"]
          : choice \in [free -> {"NN", "XX"}] }

\* The number of consecutive tags equal to tag from position k on.
RECURSIVE run_length(_, _, _)
run_length(tagged, k, tag) ==
    IF k <= Len(tagged) /\ tagged[k] = tag THEN 1 + run_length(tagged, k + 1, tag) ELSE 0

\* ' '.join(words[a..b])
RECURSIVE join_words(_, _, _)
join_words(words, a, b) ==
    IF a > b THEN <<>>
    ELSE IF a = b THEN words[a]
    ELSE words[a] \o <<" ">> \o join_words(words, a + 1, b)

\* The chunk grammar NP: {<DT|PP\$>?<JJ.*>*<NN.*>+}, scanning left to right:
\* the phrases of the chunks found from token k on.
RECURSIVE noun_phrases_from(_, _, _)
noun_phrases_from(tokens, tagged, k) ==
    IF k > Len(tokens) THEN {}
    ELSE LET a == IF tagged[k] = "DT" THEN k + 1 ELSE k
             b == a + run_length(tagged, a, "JJ")
             c == b + run_length(tagged, b, "NN")
         IN  IF c > b
             THEN {join_words(tokens, k, c - 1)} \cup noun_phrases_from(tokens, tagged, c)
             ELSE noun_phrases_from(tokens, tagged, k + 1)

extract_core_entities(tokens, tagged) ==
    {tokens[k] : k \in {n \in 1..Len(tokens) : tagged[n] = "NN" /\ Len(tokens[n]) > 2}}
    \cup {ph \in noun_phrases_from(tokens, tagged, 1) : Len(ph) > 3}

\* -------------------------------------------------- analyze_query_structure
None == "None"

group_size_of(text_lower) ==
    IF AnyIn({<<"c","o","r","p","o","r","a","t","e">>, <<"b","u","s","i","n","e","s","s">>, <<"t","e",
        "a","m">>, <<"g","r","o","u","p">>}, text_lower) THEN "large"
    ELSE IF AnyIn({<<"i","n","d","i","v","i","d","u","a","l">>, <<"p","e","r","s","o","n","a",
             "l">>, <<"s","i","n","g","l","e">>}, text_lower) THEN "small"
    ELSE None

age_group_of(text_lower) ==
    IF AnyIn({<<"s","t","u","d","e","n","t">>, <<"y","o","u","t","h">>, <<"c","o","l","l","e","g",
        "e">>, <<"y","o","u","n","g">>}, text_lower) THEN "young"
    ELSE IF AnyIn({<<"s","e","n","i","o","r">>, <<"e","l","d","e","r","l","y">>, <<"a","d","u","l",
             "t">>}, text_lower) THEN "adult"
    ELSE None

\* A faulty inference for C23: the low-urgency keywords are looked for first.
urgency_low_first(text_lower) ==
    IF AnyIn({<<"w","h","e","n","e","v","e","r">>, <<"n","o"," ","r","u","s","h">>, <<"t","a","k","e",
        " ","t","i","m","e">>}, text_lower) THEN "low"
    ELSE IF AnyIn({<<"u","r","g","e","n","t">>, <<"a","s","a","p">>, <<"i","m","m","e","d","i","a","t",
             "e">>, <<"q","u","i","c","k","l","y">>}, text_lower) THEN "high"
    ELSE "normal"

urgency_of(text_lower) ==
    IF AnyIn({<<"u","r","g","e","n","t">>, <<"a","s","a","p">>, <<"i","m","m","e","d","i","a","t",
        "e">>, <<"q","u","i","c","k","l","y">>}, text_lower) THEN "high"
    ELSE IF AnyIn({<<"w","h","e","n","e","v","e","r">>, <<"n","o"," ","r","u","s","h">>, <<"t","a","k",
             "e"," ","t","i","m","e">>}, text_lower) THEN "low"
    ELSE "normal"

complexity_of(text_lower) ==
    IF AnyIn({<<"c","o","m","p","r","e","h","e","n","s","i","v","e">>, <<"d","e","t","a","i","l","e",
        "d">>, <<"t","h","o","r","o","u","g","h">>, <<"c","o","m","p","l","e","t",
        "e">>}, text_lower) THEN "high"
    ELSE IF AnyIn({<<"b","r","i","e","f">>, <<"s","u","m","m","a","r","y">>, <<"o","v","e","r","v","i",
             "e","w">>, <<"b","a","s","i","c">>}, text_lower) THEN "low"
    ELSE "medium"

\* analyze_query_structure(persona, job_to_be_done), given the tagger's answer
\* for the tokens of the lowercased combined text.
analyze_query_structure(p, j, tagged) ==
    LET combined_text == Concat2(p, j)
        text_lower == lower(combined_text)
    IN  [core_entities |-> extract_core_entities(word_tokenize(text_lower), tagged),
         constraints |-> extract_constraints(combined_text),
         context |-> [group_size |-> group_size_of(text_lower),
                      age_group |-> age_group_of(text_lower),
                      urgency |-> urgency_of(text_lower),
                      complexity |-> complexity_of(text_lower),
                      domain |-> "general"],
         persona |-> p]

\* The tagger's possible answers for a query.
query_tags(p, j) == pos_tag(word_tokenize(lower(Concat2(p, j))))

\* ------------------------------------------------------ load_test_cases
test_cases == <<
    [name |-> "Food Contractor - Buffet Menu",
     persona |-> <<"F","o","o","d"," ","C","o","n","t","r","a","c","t","o","r">>,
     job |-> <<"P","r","e","p","a","r","e"," ","a"," ","v","e","g","e","t","a","r","i","a","n"," ",
         "b","u","f","f","e","t","-","s","t","y","l","e"," ","d","i","n","n","e","r"," ","m","e",
         "n","u"," ","f","o","r"," ","a"," ","c","o","r","p","o","r","a","t","e"," ","g","a","t",
         "h","e","r","i","n","g",","," ","i","n","c","l","u","d","i","n","g"," ","g","l","u","t",
         "e","n","-","f","r","e","e"," ","i","t","e","m","s",".">>,
     expected_entities |-> {<<"m","e","n","u">>, <<"d","i","n","n","e","r">>, <<"b","u","f","f","e",
         "t">>, <<"g","a","t","h","e","r","i","n","g">>},
     expected_constraints |-> {<<"v","e","g","e","t","a","r","i","a","n">>, <<"g","l","u","t","e","n",
         "-","f","r","e","e">>, <<"c","o","r","p","o","r","a","t","e">>}],
    [name |-> "PhD Researcher - Literature Review",
     persona |-> <<"P","h","D"," ","R","e","s","e","a","r","c","h","e","r"," ","i","n"," ","C","o",
         "m","p","u","t","a","t","i","o","n","a","l"," ","B","i","o","l","o","g","y">>,
     job |-> <<"P","r","e","p","a","r","e"," ","a"," ","c","o","m","p","r","e","h","e","n","s","i",
         "v","e"," ","l","i","t","e","r","a","t","u","r","e"," ","r","e","v","i","e","w"," ","f",
         "o","c","u","s","i","n","g"," ","o","n"," ","m","e","t","h","o","d","o","l","o","g","i",
         "e","s",","," ","d","a","t","a","s","e","t","s",","," ","a","n","d"," ","p","e","r","f",
         "o","r","m","a","n","c","e"," ","b","e","n","c","h","m","a","r","k","s">>,
     expected_entities |-> {<<"l","i","t","e","r","a","t","u","r","e">>, <<"r","e","v","i","e",
         "w">>, <<"m","e","t","h","o","d","o","l","o","g","i","e","s">>, <<"d","a","t","a","s","e",
         "t","s">>, <<"b","e","n","c","h","m","a","r","k","s">>},
     expected_constraints |-> {<<"c","o","m","p","r","e","h","e","n","s","i","v","e">>, <<"d","e","t",
         "a","i","l","e","d">>, <<"t","h","o","r","o","u","g","h">>}],
    [name |-> "Investment Analyst - Financial Analysis",
     persona |-> <<"I","n","v","e","s","t","m","e","n","t"," ","A","n","a","l","y","s","t">>,
     job |-> <<"A","n","a","l","y","z","e"," ","r","e","v","e","n","u","e"," ","t","r","e","n","d",
         "s",","," ","R","&","D"," ","i","n","v","e","s","t","m","e","n","t","s",","," ","a","n",
         "d"," ","m","a","r","k","e","t"," ","p","o","s","i","t","i","o","n","i","n","g"," ","s",
         "t","r","a","t","e","g","i","e","s">>,
     expected_entities |-> {<<"r","e","v","e","n","u","e">>, <<"t","r","e","n","d","s">>, <<"i","n","v",
         "e","s","t","m","e","n","t","s">>, <<"s","t","r","a","t","e","g","i","e","s">>},
     expected_constraints |-> {<<"d","e","t","a","i","l","e","d">>, <<"c","o","m","p","r","e","h","e",
         "n","s","i","v","e">>, <<"a","n","a","l","y","t","i","c","a","l">>}],
    [name |-> "Chemistry Student - Exam Preparation",
     persona |-> <<"U","n","d","e","r","g","r","a","d","u","a","t","e"," ","C","h","e","m","i","s",
         "t","r","y"," ","S","t","u","d","e","n","t">>,
     job |-> <<"I","d","e","n","t","i","f","y"," ","k","e","y"," ","c","o","n","c","e","p","t","s",
         " ","a","n","d"," ","m","e","c","h","a","n","i","s","m","s"," ","f","o","r"," ","e","x",
         "a","m"," ","p","r","e","p","a","r","a","t","i","o","n"," ","o","n"," ","r","e","a","c",
         "t","i","o","n"," ","k","i","n","e","t","i","c","s">>,
     expected_entities |-> {<<"c","o","n","c","e","p","t","s">>, <<"m","e","c","h","a","n","i","s","m",
         "s">>, <<"k","i","n","e","t","i","c","s">>, <<"p","r","e","p","a","r","a","t","i","o","n">>},
     expected_constraints |-> {<<"k","e","y">>, <<"i","m","p","o","r","t","a","n","t">>, <<"e","s","s",
         "e","n","t","i","a","l">>}] >>


\* ------------------------------------------------------------ fixed point
\* A float is an integer number of 1/Scale.
Scale == 100 * 100

\* The decimal literal units.hundredths, e.g. Dec(1, 50) is 1.5.
Dec(units, hundredths) == units * Scale + hundredths * (Scale \div 100)

\* float('nan'): what numpy answers for 0.0 / 0.0 (with a RuntimeWarning, not an
\* exception).  Every sum or product with it is NaN again.
NaN == -(Scale * Scale)

\* ----------------------------------------------- calculate_dynamic_weights
\* A faulty total for C1: the penalty weight is left out.
total_without_penalty(w) == w[1] + w[2] + w[3]

\* total = w1 + w2 + w3 + w4
weights_total(w) == w[1] + w[2] + w[3] + w[4]

\* Faulty weights for C17: every rule that lowers the semantic weight lowers it by 0.2.
dynamic_weights_steep(qa) ==
    LET n_entities == Cardinality(qa.core_entities)
        total_constraints == Cardinality(qa.constraints.positive)
                             + Cardinality(qa.constraints.negative)
        base == <<Dec(0, 40), Dec(0, 30), Dec(0, 20), Dec(0, 10)>>
        by_entities ==
            IF n_entities > 5
            THEN <<base[1] + Dec(0, 10), base[2] - Dec(0, 5), base[3] - Dec(0, 5), base[4]>>
            ELSE IF n_entities < 3
            THEN <<base[1] - Dec(0, 20), base[2] + Dec(0, 10), base[3], base[4]>>
            ELSE base
        by_constraints ==
            IF total_constraints > 3
            THEN <<by_entities[1] - Dec(0, 20), by_entities[2] + Dec(0, 10),
                   by_entities[3] - Dec(0, 5), by_entities[4] + Dec(0, 5)>>
            ELSE by_entities
        by_urgency ==
            IF qa.context.urgency = "high"
            THEN <<by_constraints[1] - Dec(0, 20), by_constraints[2],
                   by_constraints[3] + Dec(0, 10), by_constraints[4]>>
            ELSE by_constraints
        total == by_urgency[1] + by_urgency[2] + by_urgency[3] + by_urgency[4]
    IN  [k \in 1..4 |-> (by_urgency[k] * Scale) \div total]

\* Faulty weights for C18: high urgency raises the keyword weight, not the title weight.
dynamic_weights_urgent_keyword(qa) ==
    LET n_entities == Cardinality(qa.core_entities)
        total_constraints == Cardinality(qa.constraints.positive)
                             + Cardinality(qa.constraints.negative)
        base == <<Dec(0, 40), Dec(0, 30), Dec(0, 20), Dec(0, 10)>>
        by_entities ==
            IF n_entities > 5
            THEN <<base[1] + Dec(0, 10), base[2] - Dec(0, 5), base[3] - Dec(0, 5), base[4]>>
            ELSE IF n_entities < 3
            THEN <<base[1] - Dec(0, 10), base[2] + Dec(0, 10), base[3], base[4]>>
            ELSE base
        by_constraints ==
            IF total_constraints > 3
            THEN <<by_entities[1] - Dec(0, 10), by_entities[2] + Dec(0, 10),
                   by_entities[3] - Dec(0, 5), by_entities[4] + Dec(0, 5)>>
            ELSE by_entities
        by_urgency ==
            IF qa.context.urgency = "high"
            THEN <<by_constraints[1] - Dec(0, 10), by_constraints[2] + Dec(0, 10),
                   by_constraints[3], by_constraints[4]>>
            ELSE by_constraints
        total == by_urgency[1] + by_urgency[2] + by_urgency[3] + by_urgency[4]
    IN  [k \in 1..4 |-> (by_urgency[k] * Scale) \div total]

calculate_dynamic_weights(qa) ==
    LET n_entities == Cardinality(qa.core_entities)
        total_constraints == Cardinality(qa.constraints.positive)
                             + Cardinality(qa.constraints.negative)
        base == <<Dec(0, 40), Dec(0, 30), Dec(0, 20), Dec(0, 10)>>
        by_entities ==
            IF n_entities > 5
            THEN <<base[1] + Dec(0, 10), base[2] - Dec(0, 5), base[3] - Dec(0, 5), base[4]>>
            ELSE IF n_entities < 3
            THEN <<base[1] - Dec(0, 10), base[2] + Dec(0, 10), base[3], base[4]>>
            ELSE base
        by_constraints ==
            IF total_constraints > 3
            THEN <<by_entities[1] - Dec(0, 10), by_entities[2] + Dec(0, 10),
                   by_entities[3] - Dec(0, 5), by_entities[4] + Dec(0, 5)>>
            ELSE by_entities
        by_urgency ==
            IF qa.context.urgency = "high"
            THEN <<by_constraints[1] - Dec(0, 10), by_constraints[2],
                   by_constraints[3] + Dec(0, 10), by_constraints[4]>>
            ELSE by_constraints
        total == weights_total(by_urgency)
    IN  [k \in 1..4 |-> (by_urgency[k] * Scale) \div total]

\* ------------------------------------------------------ the embedding model
\* SentenceTransformer.encode is outside the repository.  A model is a
\* deterministic function from a text to a vector; model 2 is a model whose
\* encode raises, model 3 one that answers with the zero vector, every other
\* model m answers with one of EmbeddingVectors.
EmbeddingVectors ==
    << <<5, 0>>, <<4, 3>>, <<3, 4>>, <<0, 5>>, <<-3, 4>>, <<-4, 3>>, <<-5, 0>> >>

Models == {1, 2}

encode(m, text) ==
    IF m = 2 THEN [raised |-> TRUE, vector |-> <<0, 0>>]
    ELSE IF m = 3 THEN [raised |-> FALSE, vector |-> <<0, 0>>]
    ELSE [raised |-> FALSE,
          vector |-> EmbeddingVectors[((m * (Len(text) + Cardinality(SeqToSet(text))))
                                       % Len(EmbeddingVectors)) + 1]]

\* np.dot and np.linalg.norm (the vectors of the model have integer norms).
dot(u, v) == u[1] * v[1] + u[2] * v[2]
norm(v) == CHOOSE n \in 0..(dot(v, v)) : n * n = dot(v, v)

\* A faulty fallback for C16: a failed embedding counts as a perfect match.
cosine_or_one(q_embedding, encoded) ==
    IF encoded.raised THEN Scale
    ELSE IF norm(q_embedding) * norm(encoded.vector) = 0 THEN NaN
    ELSE (dot(q_embedding, encoded.vector) * Scale)
         \div (norm(q_embedding) * norm(encoded.vector))

\* np.dot(q, e) / (norm(q) * norm(e)) inside try, 0.0 in the except branch; a
\* zero norm makes the quotient 0.0 / 0.0.
cosine_or_zero(q_embedding, encoded) ==
    IF encoded.raised THEN 0
    ELSE IF norm(q_embedding) * norm(encoded.vector) = 0 THEN NaN
    ELSE (dot(q_embedding, encoded.vector) * Scale)
         \div (norm(q_embedding) * norm(encoded.vector))

\* -------------------------------------------- calculate_multi_factor_score
\* w1, w2, w3, w4 of the scorer: Semantic, Keyword, Title, Penalty.
score_weights == <<Dec(0, 40), Dec(0, 30), Dec(0, 20), Dec(0, 10)>>

\* How many of the terms occur in s.
hits(terms, s) == Cardinality({t \in terms : Contains(t, s)})

total_keywords(qa) ==
    Cardinality(qa.core_entities) + Cardinality(qa.constraints.positive)

\* 2. the keyword score, normalized, before the context bonuses.
keyword_score(qa, text) ==
    LET raw == hits(qa.core_entities, text) * Dec(1, 0)
               + hits(qa.constraints.positive, text) * Dec(1, 50)
    IN  IF total_keywords(qa) > 0 THEN raw \div total_keywords(qa) ELSE raw

\* 3. the title score.
title_score(qa, title) ==
    LET raw == hits(qa.core_entities, title) * Dec(2, 0)
               + hits(qa.constraints.positive, title) * Dec(2, 50)
    IN  IF total_keywords(qa) > 0 THEN raw \div total_keywords(qa) ELSE raw

\* A faulty penalty for C19: normalized like the keyword score.
penalty_normalized(qa, text) ==
    LET raw == hits(qa.constraints.negative, text) * Dec(2, 0)
    IN  IF total_keywords(qa) > 0 THEN raw \div total_keywords(qa) ELSE raw

\* 4. the penalty score.
penalty_score(qa, text) == hits(qa.constraints.negative, text) * Dec(2, 0)

\* A faulty cascade for C11: "menu" in the text does not select the food branch.
priority_by_persona_only(qa, text, document) ==
    IF Contains(<<"f","o","o","d"," ","c","o","n","t","r","a","c","t","o","r">>, lower(qa.persona))
    THEN IF Contains(<<"m","a","i","n","s">>, document) \/ Contains(<<"m","a","i",
             "n">>, document) THEN Dec(3, 0)
         ELSE IF AnyIn({<<"e","n","t","r","e","e">>, <<"p","r","i","m","a","r","y">>, <<"f","e","a","t",
                  "u","r","e","d">>}, document) THEN Dec(2, 50)
         ELSE IF Contains(<<"s","i","d","e","s">>, document) \/ Contains(<<"s","i","d",
                  "e">>, document) THEN Dec(1, 0)
         ELSE IF AnyIn({<<"a","p","p","e","t","i","z","e","r">>, <<"s","t","a","r","t","e","r">>, <<"b",
                  "r","e","a","k","f","a","s","t">>}, document) THEN Dec(0, 50)
         ELSE 0
    ELSE IF AnyIn({<<"r","e","s","e","a","r","c","h">>, <<"s","t","u","d","y">>, <<"a","n","a","l","y",
             "s","i","s">>, <<"l","i","t","e","r","a","t","u","r","e">>}, text)
    THEN IF Contains(<<"m","e","t","h","o","d","o","l","o","g","y">>, document) \/ Contains(<<"m","e","t",
             "h","o","d","s">>, document) THEN Dec(2, 0)
         ELSE IF Contains(<<"r","e","s","u","l","t","s">>, document) \/ Contains(<<"f","i","n","d","i","n",
                  "g","s">>, document) THEN Dec(1, 50)
         ELSE IF Contains(<<"i","n","t","r","o","d","u","c","t","i","o","n">>, document) \/ Contains(<<"b",
                  "a","c","k","g","r","o","u","n","d">>, document)
              THEN Dec(1, 0)
         ELSE 0
    ELSE IF AnyIn({<<"r","e","v","e","n","u","e">>, <<"f","i","n","a","n","c","i","a","l">>, <<"b","u",
             "s","i","n","e","s","s">>, <<"i","n","v","e","s","t","m","e","n","t">>}, text)
    THEN IF Contains(<<"f","i","n","a","n","c","i","a","l">>, document) \/ Contains(<<"r","e","v","e","n",
             "u","e">>, document) THEN Dec(2, 0)
         ELSE IF Contains(<<"s","t","r","a","t","e","g","y">>, document) \/ Contains(<<"a","n","a","l","y",
                  "s","i","s">>, document) THEN Dec(1, 50)
         ELSE IF Contains(<<"o","v","e","r","v","i","e","w">>, document) \/ Contains(<<"s","u","m","m","a",
                  "r","y">>, document) THEN Dec(1, 0)
         ELSE 0
    ELSE IF AnyIn({<<"s","t","u","d","e","n","t">>, <<"s","t","u","d","y">>, <<"e","x","a","m">>, <<"p",
             "r","e","p","a","r","a","t","i","o","n">>}, text)
    THEN IF Contains(<<"k","e","y"," ","c","o","n","c","e","p","t","s">>, document) \/ Contains(<<"i","m",
             "p","o","r","t","a","n","t">>, document) THEN Dec(2, 0)
         ELSE IF Contains(<<"e","x","a","m","p","l","e","s">>, document) \/ Contains(<<"p","r","a","c","t",
                  "i","c","e">>, document) THEN Dec(1, 50)
         ELSE IF Contains(<<"i","n","t","r","o","d","u","c","t","i","o","n">>, document) \/ Contains(<<"b",
                  "a","c","k","g","r","o","u","n","d">>, document)
              THEN Dec(1, 0)
         ELSE 0
    ELSE 0

\* A faulty cascade for C21: the four domain branches are separate if
\* statements, so every branch whose trigger holds adds its grade.
priority_every_branch(qa, text, document) ==
    (IF Contains(<<"f","o","o","d"," ","c","o","n","t","r","a","c","t","o",
        "r">>, lower(qa.persona)) \/ Contains(<<"m","e","n","u">>, text)
     THEN IF Contains(<<"m","a","i","n","s">>, document) \/ Contains(<<"m","a","i",
              "n">>, document) THEN Dec(3, 0)
          ELSE IF AnyIn({<<"e","n","t","r","e","e">>, <<"p","r","i","m","a","r","y">>, <<"f","e","a","t",
                   "u","r","e","d">>}, document) THEN Dec(2, 50)
          ELSE IF Contains(<<"s","i","d","e","s">>, document) \/ Contains(<<"s","i","d",
                   "e">>, document) THEN Dec(1, 0)
          ELSE IF AnyIn({<<"a","p","p","e","t","i","z","e","r">>, <<"s","t","a","r","t","e","r">>, <<"b",
                   "r","e","a","k","f","a","s","t">>}, document) THEN Dec(0, 50)
          ELSE 0
     ELSE 0)
    + (IF AnyIn({<<"r","e","s","e","a","r","c","h">>, <<"s","t","u","d","y">>, <<"a","n","a","l","y",
        "s","i","s">>, <<"l","i","t","e","r","a","t","u","r","e">>}, text)
       THEN IF Contains(<<"m","e","t","h","o","d","o","l","o","g","y">>, document) \/ Contains(<<"m","e",
                "t","h","o","d","s">>, document) THEN Dec(2, 0)
            ELSE IF Contains(<<"r","e","s","u","l","t","s">>, document) \/ Contains(<<"f","i","n","d","i",
                     "n","g","s">>, document) THEN Dec(1, 50)
            ELSE IF Contains(<<"i","n","t","r","o","d","u","c","t","i","o",
                     "n">>, document) \/ Contains(<<"b","a","c","k","g","r","o","u","n","d">>, document)
                 THEN Dec(1, 0)
            ELSE 0
       ELSE 0)
    + (IF AnyIn({<<"r","e","v","e","n","u","e">>, <<"f","i","n","a","n","c","i","a","l">>, <<"b","u",
        "s","i","n","e","s","s">>, <<"i","n","v","e","s","t","m","e","n","t">>}, text)
       THEN IF Contains(<<"f","i","n","a","n","c","i","a","l">>, document) \/ Contains(<<"r","e","v","e",
                "n","u","e">>, document) THEN Dec(2, 0)
            ELSE IF Contains(<<"s","t","r","a","t","e","g","y">>, document) \/ Contains(<<"a","n","a","l",
                     "y","s","i","s">>, document) THEN Dec(1, 50)
            ELSE IF Contains(<<"o","v","e","r","v","i","e","w">>, document) \/ Contains(<<"s","u","m","m",
                     "a","r","y">>, document) THEN Dec(1, 0)
            ELSE 0
       ELSE 0)
    + (IF AnyIn({<<"s","t","u","d","e","n","t">>, <<"s","t","u","d","y">>, <<"e","x","a","m">>, <<"p",
        "r","e","p","a","r","a","t","i","o","n">>}, text)
       THEN IF Contains(<<"k","e","y"," ","c","o","n","c","e","p","t","s">>, document) \/ Contains(<<"i",
                "m","p","o","r","t","a","n","t">>, document) THEN Dec(2, 0)
            ELSE IF Contains(<<"e","x","a","m","p","l","e","s">>, document) \/ Contains(<<"p","r","a","c",
                     "t","i","c","e">>, document) THEN Dec(1, 50)
            ELSE IF Contains(<<"i","n","t","r","o","d","u","c","t","i","o",
                     "n">>, document) \/ Contains(<<"b","a","c","k","g","r","o","u","n","d">>, document)
                 THEN Dec(1, 0)
            ELSE 0
       ELSE 0)

\* 5. the document type priority score: the if/elif cascade.
document_priority_score(qa, text, document) ==
    IF Contains(<<"f","o","o","d"," ","c","o","n","t","r","a","c","t","o",
        "r">>, lower(qa.persona)) \/ Contains(<<"m","e","n","u">>, text)
    THEN IF Contains(<<"m","a","i","n","s">>, document) \/ Contains(<<"m","a","i",
             "n">>, document) THEN Dec(3, 0)
         ELSE IF AnyIn({<<"e","n","t","r","e","e">>, <<"p","r","i","m","a","r","y">>, <<"f","e","a","t",
                  "u","r","e","d">>}, document) THEN Dec(2, 50)
         ELSE IF Contains(<<"s","i","d","e","s">>, document) \/ Contains(<<"s","i","d",
                  "e">>, document) THEN Dec(1, 0)
         ELSE IF AnyIn({<<"a","p","p","e","t","i","z","e","r">>, <<"s","t","a","r","t","e","r">>, <<"b",
                  "r","e","a","k","f","a","s","t">>}, document) THEN Dec(0, 50)
         ELSE 0
    ELSE IF AnyIn({<<"r","e","s","e","a","r","c","h">>, <<"s","t","u","d","y">>, <<"a","n","a","l","y",
             "s","i","s">>, <<"l","i","t","e","r","a","t","u","r","e">>}, text)
    THEN IF Contains(<<"m","e","t","h","o","d","o","l","o","g","y">>, document) \/ Contains(<<"m","e","t",
             "h","o","d","s">>, document) THEN Dec(2, 0)
         ELSE IF Contains(<<"r","e","s","u","l","t","s">>, document) \/ Contains(<<"f","i","n","d","i","n",
                  "g","s">>, document) THEN Dec(1, 50)
         ELSE IF Contains(<<"i","n","t","r","o","d","u","c","t","i","o","n">>, document) \/ Contains(<<"b",
                  "a","c","k","g","r","o","u","n","d">>, document)
              THEN Dec(1, 0)
         ELSE 0
    ELSE IF AnyIn({<<"r","e","v","e","n","u","e">>, <<"f","i","n","a","n","c","i","a","l">>, <<"b","u",
             "s","i","n","e","s","s">>, <<"i","n","v","e","s","t","m","e","n","t">>}, text)
    THEN IF Contains(<<"f","i","n","a","n","c","i","a","l">>, document) \/ Contains(<<"r","e","v","e","n",
             "u","e">>, document) THEN Dec(2, 0)
         ELSE IF Contains(<<"s","t","r","a","t","e","g","y">>, document) \/ Contains(<<"a","n","a","l","y",
                  "s","i","s">>, document) THEN Dec(1, 50)
         ELSE IF Contains(<<"o","v","e","r","v","i","e","w">>, document) \/ Contains(<<"s","u","m","m","a",
                  "r","y">>, document) THEN Dec(1, 0)
         ELSE 0
    ELSE IF AnyIn({<<"s","t","u","d","e","n","t">>, <<"s","t","u","d","y">>, <<"e","x","a","m">>, <<"p",
             "r","e","p","a","r","a","t","i","o","n">>}, text)
    THEN IF Contains(<<"k","e","y"," ","c","o","n","c","e","p","t","s">>, document) \/ Contains(<<"i","m",
             "p","o","r","t","a","n","t">>, document) THEN Dec(2, 0)
         ELSE IF Contains(<<"e","x","a","m","p","l","e","s">>, document) \/ Contains(<<"p","r","a","c","t",
                  "i","c","e">>, document) THEN Dec(1, 50)
         ELSE IF Contains(<<"i","n","t","r","o","d","u","c","t","i","o","n">>, document) \/ Contains(<<"b",
                  "a","c","k","g","r","o","u","n","d">>, document)
              THEN Dec(1, 0)
         ELSE 0
    ELSE 0

\* A faulty bonus for C20: the group bonus does not look at context.group_size.
context_bonus_any_group(context, text) ==
    (IF AnyIn({<<"g","r","o","u","p">>, <<"s","h","a","r","e","d">>, <<"m","u","l","t","i","p","l",
        "e">>, <<"t","e","a","m">>, <<"c","o","l","l","a","b","o","r","a","t","i","v","e">>,
                  <<"b","a","t","c","h">>, <<"c","o","r","p","o","r","a","t","e">>}, text)
     THEN Dec(0, 50) ELSE 0)
    + (IF context.age_group = "young"
          /\ AnyIn({<<"s","t","u","d","e","n","t">>, <<"y","o","u","t","h">>, <<"y","o","u","n",
                 "g">>, <<"c","o","l","l","e","g","e">>, <<"b","u","d","g","e","t">>,
                    <<"a","f","f","o","r","d","a","b","l","e">>}, text)
       THEN Dec(0, 30) ELSE 0)

\* The context bonuses, which the code adds to keyword_score.
context_bonus(context, text) ==
    (IF context.group_size = "large"
        /\ AnyIn({<<"g","r","o","u","p">>, <<"s","h","a","r","e","d">>, <<"m","u","l","t","i","p","l",
               "e">>, <<"t","e","a","m">>, <<"c","o","l","l","a","b","o","r","a","t","i","v","e">>,
                  <<"b","a","t","c","h">>, <<"c","o","r","p","o","r","a","t","e">>}, text)
     THEN Dec(0, 50) ELSE 0)
    + (IF context.age_group = "young"
          /\ AnyIn({<<"s","t","u","d","e","n","t">>, <<"y","o","u","t","h">>, <<"y","o","u","n",
                 "g">>, <<"c","o","l","l","e","g","e">>, <<"b","u","d","g","e","t">>,
                    <<"a","f","f","o","r","d","a","b","l","e">>}, text)
       THEN Dec(0, 30) ELSE 0)

\* final_score = (w1 * semantic_score) + (w2 * keyword_score) + (w3 * title_score)
\*               - (w4 * penalty_score) + document_priority_score
final_score(w, semantic, keyword, title, penalty, priority) ==
    IF semantic = NaN THEN NaN
    ELSE ((w[1] * semantic + w[2] * keyword + w[3] * title - w[4] * penalty) \div Scale) + priority

\* The five component scores of a section, the context bonuses included.
score_components(section, qa, q_embedding, m) ==
    LET text == lower(Concat2(section.section_title, section.text))
        title == lower(section.section_title)
        document == lower(section.document)
    IN  [semantic |-> cosine_or_zero(q_embedding, encode(m, section.text)),
         keyword |-> keyword_score(qa, text) + context_bonus(qa.context, text),
         title |-> title_score(qa, title),
         penalty |-> penalty_score(qa, text),
         priority |-> document_priority_score(qa, text, document)]

\* A faulty scorer for C5: the score the record already carries is added in.
score_with_memory(section, qa, q_embedding, m) ==
    LET c == score_components(section, qa, q_embedding, m)
    IN  final_score(score_weights, c.semantic, c.keyword, c.title, c.penalty, c.priority)
        + section.similarity_score

calculate_multi_factor_score(section, qa, q_embedding, m) ==
    LET c == score_components(section, qa, q_embedding, m)
    IN  final_score(score_weights, c.semantic, c.keyword, c.title, c.penalty, c.priority)

\* section['section_title'], section['text'] and section['document'] are read
\* before the try: a record without one of them raises KeyError.
has_fields(section) == {"section_title", "text", "document"} \subseteq DOMAIN section

\* The call as its caller sees it: it raises, or it returns final with the
\* component scores it was computed from.
score_outcome(section, qa, q_embedding, m) ==
    IF ~has_fields(section)
    THEN [raised |-> TRUE, semantic |-> 0, keyword |-> 0, title |-> 0, penalty |-> 0,
          priority |-> 0, final |-> 0]
    ELSE LET c == score_components(section, qa, q_embedding, m)
         IN  [raised |-> FALSE, semantic |-> c.semantic, keyword |-> c.keyword,
              title |-> c.title, penalty |-> c.penalty, priority |-> c.priority,
              final |-> calculate_multi_factor_score(section, qa, q_embedding, m)]

\* ----------------------------------------------------------------- sorted
\* A faulty insertion for C3: ascending order.
insert_asc(placed, item, key) ==
    LET ahead == Cardinality({k \in 1..Len(placed) : key[placed[k]] <= key[item]})
    IN  SubSeq(placed, 1, ahead) \o <<item>> \o SubSeq(placed, ahead + 1, Len(placed))

\* A faulty insertion for C4: descending, but an item goes before the items
\* already placed whose key equals its own.
insert_before_equal(placed, item, key) ==
    LET ahead == Cardinality({k \in 1..Len(placed) : key[placed[k]] > key[item]})
    IN  SubSeq(placed, 1, ahead) \o <<item>> \o SubSeq(placed, ahead + 1, Len(placed))

\* sorted(items, key, reverse=True) is stable: an item goes after every item
\* already placed whose key is greater than or equal to its own.
insert_desc(placed, item, key) ==
    LET ahead == Cardinality({k \in 1..Len(placed) : key[placed[k]] >= key[item]})
    IN  SubSeq(placed, 1, ahead) \o <<item>> \o SubSeq(placed, ahead + 1, Len(placed))

RECURSIVE sorted_desc_from(_, _, _)
sorted_desc_from(placed, k, key) ==
    IF k > Len(key) THEN placed
    ELSE sorted_desc_from(insert_desc(placed, k, key), k + 1, key)

\* The positions 1..Len(key) in the order sorted() returns the items with these keys.
sorted_desc(key) == sorted_desc_from(<<>>, 1, key)

\* ---------------------------------------- intelligent_subsection_analysis
\* nltk.sent_tokenize on plain prose: a sentence ends at ".", "!" or "?"
\* followed by a space, and at the last character of the text that is not a space.
SentenceEnds(s) ==
    {p \in 1..Len(s) :
        /\ s[p] # " "
        /\ \/ (p < Len(s) /\ s[p] \in {".", "!", "?"} /\ s[p + 1] = " ")
           \/ \A r \in (p + 1)..Len(s) : s[r] = " "}

sent_tokenize(s) ==
    LET ends == SentenceEnds(s)
        nth(k) == CHOOSE p \in ends : Cardinality({q \in ends : q < p}) = k - 1
        start(k) == IF k = 1 THEN 1 ELSE nth(k - 1) + 1
        \* the first character of the sentence, past the spaces before it
        first(k) == CHOOSE a \in start(k)..nth(k) :
                       s[a] # " " /\ \A b \in start(k)..(a - 1) : s[b] = " "
    IN  [k \in 1..Cardinality(ends) |-> SubSeq(s, first(k), nth(k))]

sentence_score(sentence, qa, q_embedding, m) ==
    LET semantic_similarity == cosine_or_zero(q_embedding, encode(m, sentence))
    IN  IF semantic_similarity = NaN THEN NaN
        ELSE hits(qa.core_entities, lower(sentence)) * Dec(1, 0)
             + hits(qa.constraints.positive, lower(sentence)) * Dec(1, 50)
             - hits(qa.constraints.negative, lower(sentence)) * Dec(2, 0)
             + semantic_similarity

\* A faulty selection for C22: the first three sentences, the sort left out.
first_sentences(scores) ==
    [k \in 1..(IF Len(scores) < 3 THEN Len(scores) ELSE 3) |-> k]

\* sentence_scores.sort(key=score, reverse=True); sentence_scores[:3]
top_sentences(scores) == SubSeq(sorted_desc(scores), 1, IF Len(scores) < 3 THEN Len(scores) ELSE 3)

\* A faulty selection for C6: a sentence whose score is 0 is kept.
selected_nonnegative(top, scores) ==
    LET keep == {k \in 1..Len(top) : scores[top[k]] >= 0}
        nth(k) == CHOOSE p \in keep : Cardinality({q \in keep : q < p}) = k - 1
    IN  [k \in 1..Cardinality(keep) |-> top[nth(k)]]

\* [sentence for sentence, score in top_sentences if score > 0], as positions
selected_sentences(top, scores) ==
    LET keep == {k \in 1..Len(top) : scores[top[k]] > 0}
        nth(k) == CHOOSE p \in keep : Cardinality({q \in keep : q < p}) = k - 1
    IN  [k \in 1..Cardinality(keep) |-> top[nth(k)]]

\* '. '.join(...)
RECURSIVE join_sentences(_, _, _)
join_sentences(sentences, picked, k) ==
    IF k > Len(picked) THEN <<>>
    ELSE IF k = Len(picked) THEN sentences[picked[k]]
    ELSE sentences[picked[k]] \o <<".", " ">> \o join_sentences(sentences, picked, k + 1)

refined_text_of(text, qa, q_embedding, m) ==
    LET sentences == sent_tokenize(text)
        scores == [k \in 1..Len(sentences) |->
                      sentence_score(sentences[k], qa, q_embedding, m)]
    IN  join_sentences(sentences, selected_sentences(top_sentences(scores), scores), 1)

\* ---------------------------------------------------- binary64 arithmetic
\* calculate_dynamic_weights on the doubles Python computes with.  A double x
\* with 2^-5 <= x < 4 is a multiple of 2^-57 and is held as the integer
\* x * 2^57 in two limbs, <<high, low>> with x * 2^57 = high * 2^30 + low;
\* every value the function computes lies in that range.
Limb == 2 ^ 30

big_add(a, b) ==
    LET low == a[2] + b[2]
    IN  <<a[1] + b[1] + (low \div Limb), low % Limb>>

\* a - b for a >= b
big_sub(a, b) ==
    IF a[2] >= b[2] THEN <<a[1] - b[1], a[2] - b[2]>>
    ELSE <<a[1] - b[1] - 1, (a[2] + Limb) - b[2]>>

big_less(a, b) == a[1] < b[1] \/ (a[1] = b[1] /\ a[2] < b[2])

\* How many low bits n has beyond 53 significant bits.
excess_bits(n) ==
    IF n[1] >= 2 ^ 28 THEN 6
    ELSE IF n[1] >= 2 ^ 27 THEN 5
    ELSE IF n[1] >= 2 ^ 26 THEN 4
    ELSE IF n[1] >= 2 ^ 25 THEN 3
    ELSE IF n[1] >= 2 ^ 24 THEN 2
    ELSE IF n[1] >= 2 ^ 23 THEN 1
    ELSE 0

\* Round to nearest, ties to even, to 53 significant bits; inexact says that
\* the exact value lies above n.
round53(n, inexact) ==
    LET unit == 2 ^ excess_bits(n)
        rest == n[2] % unit
        below == <<n[1], n[2] - rest>>
        odd == (n[2] \div unit) % 2 = 1
        up == \/ 2 * rest > unit
              \/ (2 * rest = unit /\ (inexact \/ odd))
    IN  IF unit = 1 THEN n
        ELSE IF up THEN big_add(below, <<0, unit>>)
        ELSE below

f64_add(a, b) == round53(big_add(a, b), FALSE)

\* a - b for a >= b
f64_sub(a, b) == round53(big_sub(a, b), FALSE)

\* Long division, one bit at a time: s is <<quotient, remainder>> so far and n
\* the number of bits still to compute.
RECURSIVE quotient_bits(_, _, _)
quotient_bits(s, b, n) ==
    IF n = 0 THEN s
    ELSE LET doubled == big_add(s[2], s[2])
         IN  IF big_less(doubled, b)
             THEN quotient_bits(<<big_add(s[1], s[1]), doubled>>, b, n - 1)
             ELSE quotient_bits(<<big_add(big_add(s[1], s[1]), <<0, 1>>),
                                  big_sub(doubled, b)>>, b, n - 1)

\* a / b for a < b: the 57 bits of the quotient after the binary point, rounded.
f64_div(a, b) ==
    LET qr == quotient_bits(<<<<0, 0>>, a>>, b, 57)
    IN  round53(qr[1], qr[2] # <<0, 0>>)

\* The doubles of the literals 0.4, 0.3, 0.2, 0.1 and 0.05.
F64_0_4 == <<53687091, 214748368>>
F64_0_3 == <<40265318, 429496728>>
F64_0_2 == <<26843545, 644245096>>
F64_0_1 == <<13421772, 858993460>>
F64_0_05 == <<6710886, 429496730>>

\* A faulty adjustment for C29: the constraint rule does not raise w4, so its
\* deltas do not sum to zero.
adjusted_weights_unbalanced(qa) ==
    LET n_entities == Cardinality(qa.core_entities)
        total_constraints == Cardinality(qa.constraints.positive)
                             + Cardinality(qa.constraints.negative)
        base == <<F64_0_4, F64_0_3, F64_0_2, F64_0_1>>
        by_entities ==
            IF n_entities > 5
            THEN <<f64_add(base[1], F64_0_1), f64_sub(base[2], F64_0_05),
                   f64_sub(base[3], F64_0_05), base[4]>>
            ELSE IF n_entities < 3
            THEN <<f64_sub(base[1], F64_0_1), f64_add(base[2], F64_0_1), base[3], base[4]>>
            ELSE base
        by_constraints ==
            IF total_constraints > 3
            THEN <<f64_sub(by_entities[1], F64_0_1), f64_add(by_entities[2], F64_0_1),
                   f64_sub(by_entities[3], F64_0_05), by_entities[4]>>
            ELSE by_entities
    IN  IF qa.context.urgency = "high"
        THEN <<f64_sub(by_constraints[1], F64_0_1), by_constraints[2],
               f64_add(by_constraints[3], F64_0_1), by_constraints[4]>>
        ELSE by_constraints

\* w1, w2, w3, w4 after the three adjustments, before the normalization.
adjusted_weights(qa) ==
    LET n_entities == Cardinality(qa.core_entities)
        total_constraints == Cardinality(qa.constraints.positive)
                             + Cardinality(qa.constraints.negative)
        base == <<F64_0_4, F64_0_3, F64_0_2, F64_0_1>>
        by_entities ==
            IF n_entities > 5
            THEN <<f64_add(base[1], F64_0_1), f64_sub(base[2], F64_0_05),
                   f64_sub(base[3], F64_0_05), base[4]>>
            ELSE IF n_entities < 3
            THEN <<f64_sub(base[1], F64_0_1), f64_add(base[2], F64_0_1), base[3], base[4]>>
            ELSE base
        by_constraints ==
            IF total_constraints > 3
            THEN <<f64_sub(by_entities[1], F64_0_1), f64_add(by_entities[2], F64_0_1),
                   f64_sub(by_entities[3], F64_0_05), f64_add(by_entities[4], F64_0_05)>>
            ELSE by_entities
    IN  IF qa.context.urgency = "high"
        THEN <<f64_sub(by_constraints[1], F64_0_1), by_constraints[2],
               f64_add(by_constraints[3], F64_0_1), by_constraints[4]>>
        ELSE by_constraints

\* total = w1 + w2 + w3 + w4
f64_total(w) == f64_add(f64_add(f64_add(w[1], w[2]), w[3]), w[4])

\* return w1/total, w2/total, w3/total, w4/total
normalized_weights(w) == [k \in 1..4 |-> f64_div(w[k], f64_total(w))]

\* ------------------------------------------------------------- the inputs
\* The words the generated task texts are made of.
Vocabulary ==
    <<<<"D","i","n","n","e","r">>, <<"e","v","e","n","i","n","g">>, <<"a","f","f","o","r","d","a",
        "b","l","e">>, <<"b","u","d","g","e","t","s">>, <<"v","e","g","e","t","a","r","i","a",
        "n">>, <<"v","e","g","a","n","s">>>>

\* ' '.join of the vocabulary words numbered by ws.
RECURSIVE text_of(_)
text_of(ws) ==
    IF ws = <<>> THEN <<>>
    ELSE IF Len(ws) = 1 THEN Vocabulary[ws[1]]
    ELSE Vocabulary[ws[1]] \o <<" ">> \o text_of(Tail(ws))

GeneratedJobs ==
    {text_of(ws) : ws \in UNION {[1..n -> 1..Len(Vocabulary)] : n \in 0..MaxWords}}

\* The words the context is inferred from, and others of the pattern catalogs.
ContextWords ==
    {<<"u","r","g","e","n","t">>, <<"w","h","e","n","e","v","e","r">>, <<"n","o"," ","r","u","s",
        "h">>, <<"d","e","t","a","i","l","e","d">>, <<"b","r","i","e","f">>, <<"c","o","r","p","o","r",
        "a","t","e">>,
     <<"b","u","s","i","n","e","s","s">>, <<"i","n","d","i","v","i","d","u","a","l">>, <<"s","t","u",
         "d","e","n","t">>, <<"s","e","n","i","o","r">>, <<"l","u","x","u","r","y">>}

\* Task texts of one, two and four of those words.
ContextJobs ==
    ContextWords
    \cup {a \o <<" ">> \o b : a \in ContextWords, b \in ContextWords}
    \cup {<<"b","r","i","e","f"," ","d","e","t","a","i","l","e","d"," ","w","h","e","n","e","v",
        "e","r"," ","u","r","g","e","n","t">>, <<"s","e","n","i","o","r"," ","s","t","u","d","e",
        "n","t"," ","i","n","d","i","v","i","d","u","a","l"," ","t","e","a","m">>}

\* The (persona, task) pairs the query analysis alone is run on.
Queries ==
    {<<<<"C","h","e","f">>, j>> : j \in GeneratedJobs}
    \cup {<<<<"P","l","a","n","n","e","r">>, j>> : j \in ContextJobs}
    \cup {<<test_cases[1].persona, test_cases[1].job>>}

\* The (persona, task) pairs of the ranking runs.
PipelineQueries ==
    {<<<<"F","o","o","d"," ","C","o","n","t","r","a","c","t","o","r">>, <<"v","e","g","e","t","a",
        "r","i","a","n"," ","d","i","n","n","e","r"," ","f","o","r"," ","a"," ","t","e","a","m">>>>,
     <<<<"S","t","u","d","e","n","t">>, <<"a","f","f","o","r","d","a","b","l","e"," ","l","u","n",
         "c","h"," ","m","e","n","u"," ","q","u","i","c","k","l","y">>>>}

\* The (persona, task) pair of the extraction runs.
ExtractQuery == <<<<"F","o","o","d"," ","C","o","n","t","r","a","c","t","o","r">>, <<"v","e","g","e",
    "t","a","r","i","a","n"," ","f","o","o","d"," ","f","o","r"," ","a"," ","t","e","a","m">>>>

\* extract_sections: a section record as the loader builds it.
section_data(document, page_number, heading, text) ==
    [document |-> document, page_number |-> page_number, section_title |-> heading,
     text |-> text, similarity_score |-> 0, importance_rank |-> 0]

SectionCatalog == <<
    section_data(<<"D","i","n","n","e","r"," ","I","d","e","a","s"," ","-"," ","M","a","i","n","s",
        "_","1",".","p","d","f">>, 1, <<"V","e","g","e","t","a","r","i","a","n"," ","L","a","s","a",
        "g","n","a">>,
                 <<"A"," ","t","e","a","m"," ","d","i","n","n","e","r"," ","m","e","n","u","."," ",
                     "S","e","r","v","e"," ","w","i","t","h"," ","s","a","l","a","d","."," ","N",
                     "o"," ","m","e","a","t"," ","h","e","r","e","."," ","B","a","k","e"," ","i",
                     "t"," ","h","o","t",".">>),
    section_data(<<"L","u","n","c","h"," ","S","i","d","e","s",".","p","d","f">>, 2, <<"B","e","e",
        "f"," ","S","t","e","w">>, <<"M","e","a","t"," ","f","o","r"," ","l","u","n","c","h",".",
        " ","P","l","a","i","n"," ","r","i","c","e",".">>),
    section_data(<<"N","o","t","e","s",".","p","d","f">>, 3, <<"U","n","k","n","o","w","n">>, <<>>) >>

\* A record that did not come from extract_sections: it has no text.
malformed_section ==
    [document |-> <<"D","i","n","n","e","r"," ","I","d","e","a","s"," ","-"," ","M","a","i","n","s",
        "_","2",".","p","d","f">>, page_number |-> 4,
     section_title |-> <<"V","e","g","e","t","a","r","i","a","n"," ","C","u","r","r",
         "y">>, similarity_score |-> 0, importance_rank |-> 0]

\* Every list of at most n records, of the catalog or malformed.
InputLists(n) ==
    LET records == SectionCatalog \o <<malformed_section>>
    IN  {[k \in 1..Len(choice) |-> records[choice[k]]] :
            choice \in UNION {[1..len -> 1..Len(records)] : len \in 0..n}}

\* Every list of at most n sections of the catalog.
SectionLists(n) ==
    {[k \in 1..Len(choice) |-> SectionCatalog[choice[k]]] :
        choice \in UNION {[1..len -> 1..Len(SectionCatalog)] : len \in 0..n}}

\* The same lists, each section on the page of its position.
PagedSectionLists(n) ==
    {[k \in 1..Len(list) |-> [list[k] EXCEPT !.page_number = k]] : list \in SectionLists(n)}

\* query_embedding = model.encode(query_text) of the caller (any vector when
\* the model cannot encode).
query_embedding_of(m, p, j) ==
    LET encoded == encode(m, Concat2(p, j))
    IN  IF encoded.raised THEN EmbeddingVectors[1] ELSE encoded.vector

\* -------------------------------------------------------- the state machine
NoResults == [total_tests |-> 0, passed |-> 0, failed |-> 0, details |-> <<>>]

IdleQuery ==
    /\ persona = <<>>
    /\ job_to_be_done = <<>>
    /\ pos_tags = <<>>

IdleRanking ==
    /\ model = 1
    /\ query_embedding = EmbeddingVectors[1]
    /\ sections = <<>>
    /\ ranked_sections = <<>>
    /\ i = 0
    /\ runs = 0
    /\ previous = <<>>
    /\ subsection_results = <<>>

\* Nothing has been scored.
NoScore ==
    [raised |-> FALSE, semantic |-> 0, keyword |-> 0, title |-> 0, penalty |-> 0,
     priority |-> 0, final |-> 0]

IdleScoring ==
    /\ scored_section = SectionCatalog[1]
    /\ score_parts = NoScore
    /\ sentence_scores = <<>>
    /\ refined = <<>>

\* No metrics have been generated.
NoMetrics ==
    [total_sections |-> 0, avg_confidence |-> 0, domain_coverage |-> 0,
     constraint_satisfaction |-> 0]

IdleMetrics == metrics = NoMetrics

\* The texts given to get_cached_embedding.
CacheTexts == {<<"s","o","u","p">>, <<"s","e","e","d">>, <<"r","i","c","e">>, <<"m","e","n","u">>}

\* No call has been made.  (served_by says where the vector of a call came from.)
NoCall ==
    [text |-> <<>>, model |-> 0, raised |-> FALSE, vector |-> <<0, 0>>, served_by |-> "none"]

IdleCache ==
    /\ embedding_cache = <<>>
    /\ lru_entries = <<>>
    /\ encode_calls = [t \in CacheTexts |-> 0]
    /\ calls = 0
    /\ returned = NoCall

query_vars == <<persona, job_to_be_done, pos_tags>>
scoring_vars == <<scored_section, score_parts, sentence_scores, refined>>
cache_vars == <<embedding_cache, lru_entries, encode_calls, calls, returned>>
ranking_vars ==
    <<model, query_embedding, sections, ranked_sections, i, runs, previous, subsection_results>>

\* ---- analyze_query_structure
InitQuery ==
    /\ pc = "start"
    /\ \E q \in Queries :
          /\ persona = q[1]
          /\ job_to_be_done = q[2]
          /\ pos_tags \in query_tags(q[1], q[2])
    /\ query_analysis = None
    /\ IdleRanking
    /\ weights = <<>>
    /\ results = NoResults
    /\ IdleScoring
    /\ IdleMetrics
    /\ IdleCache

\* query_analysis = analyze_query_structure(persona, job_to_be_done)
AnalyzeQuery ==
    /\ pc = "start"
    /\ query_analysis' = analyze_query_structure(persona, job_to_be_done, pos_tags)
    /\ pc' = "analyzed"
    /\ UNCHANGED <<query_vars, ranking_vars, weights, results, scoring_vars, metrics, cache_vars>>

NextQuery == AnalyzeQuery

SpecQuery == InitQuery /\ [][NextQuery]_vars

\* ---- calculate_dynamic_weights
\* n distinct strings.
Strings(n) == {[k \in 1..len |-> "x"] : len \in 1..n}

SyntheticAnalyses ==
    {[core_entities |-> Strings(e),
      constraints |-> [positive |-> Strings(p), negative |-> Strings(n)],
      context |-> [group_size |-> None, age_group |-> None, urgency |-> u,
                   complexity |-> "medium", domain |-> "general"],
      persona |-> <<>>] :
        e \in 0..MaxEntityCount, p \in 0..MaxConstraintCount, n \in 0..MaxConstraintCount,
        u \in {"low", "normal", "high"}}

InitWeights ==
    /\ pc = "w_start"
    /\ query_analysis \in SyntheticAnalyses
    /\ IdleQuery
    /\ IdleRanking
    /\ weights = <<>>
    /\ results = NoResults
    /\ IdleScoring
    /\ IdleMetrics
    /\ IdleCache

CalculateWeights ==
    /\ pc = "w_start"
    /\ weights' = calculate_dynamic_weights(query_analysis)
    /\ pc' = "w_done"
    /\ UNCHANGED <<query_vars, query_analysis, ranking_vars, results, scoring_vars, metrics, cache_vars>>

NextWeights == CalculateWeights

SpecWeights == InitWeights /\ [][NextWeights]_vars

\* ---- calculate_dynamic_weights in binary64, in two steps
InitFloatWeights ==
    /\ pc = "f_start"
    /\ query_analysis \in SyntheticAnalyses
    /\ IdleQuery
    /\ IdleRanking
    /\ weights = <<>>
    /\ results = NoResults
    /\ IdleScoring
    /\ IdleMetrics
    /\ IdleCache

\* the base weights and the three adjustments
AdjustWeights ==
    /\ pc = "f_start"
    /\ weights' = adjusted_weights(query_analysis)
    /\ pc' = "f_adjusted"
    /\ UNCHANGED <<query_vars, query_analysis, ranking_vars, results, scoring_vars, metrics, cache_vars>>

\* total = w1 + w2 + w3 + w4; return w1/total, w2/total, w3/total, w4/total
NormalizeWeights ==
    /\ pc = "f_adjusted"
    /\ weights' = normalized_weights(weights)
    /\ pc' = "f_done"
    /\ UNCHANGED <<query_vars, query_analysis, ranking_vars, results, scoring_vars, metrics, cache_vars>>

NextFloatWeights ==
    \/ AdjustWeights
    \/ NormalizeWeights

SpecFloatWeights == InitFloatWeights /\ [][NextFloatWeights]_vars

\* ---- analyze_sections
Init ==
    /\ pc = "start"
    /\ \E q \in PipelineQueries :
          /\ persona = q[1]
          /\ job_to_be_done = q[2]
          /\ pos_tags \in query_tags(q[1], q[2])
    /\ query_analysis = None
    /\ model \in Models
    /\ query_embedding = query_embedding_of(model, persona, job_to_be_done)
    /\ sections \in InputLists(MaxSections)
    /\ ranked_sections = <<>>
    /\ i = 0
    /\ runs = 0
    /\ previous = <<>>
    /\ subsection_results = <<>>
    /\ weights = <<>>
    /\ results = NoResults
    /\ IdleScoring
    /\ IdleMetrics
    /\ IdleCache

\* for section in sections: section['similarity_score'] = calculate_multi_factor_score(...)
ScoreSection ==
    /\ pc = "analyzed"
    /\ i < Len(sections)
    /\ has_fields(sections[i + 1])
    /\ sections' = [sections EXCEPT ![i + 1].similarity_score =
                       calculate_multi_factor_score(sections[i + 1], query_analysis,
                                                    query_embedding, model)]
    /\ i' = i + 1
    /\ UNCHANGED <<pc, query_vars, query_analysis, model, query_embedding, ranked_sections,
                   runs, previous, subsection_results, weights, results, scoring_vars, metrics, cache_vars>>

\* calculate_multi_factor_score raises in the loop, which has no try around it:
\* analyze_sections ends with the exception.
ScoreRaises ==
    /\ pc = "analyzed"
    /\ i < Len(sections)
    /\ ~has_fields(sections[i + 1])
    /\ pc' = "raised"
    /\ UNCHANGED <<query_vars, query_analysis, ranking_vars, weights, results, scoring_vars, metrics, cache_vars>>

\* A faulty step for C30: sections.sort(...) in place of sorted(sections, ...),
\* so the input list itself is reordered and returned.
SortInPlace ==
    /\ pc = "analyzed"
    /\ i = Len(sections)
    /\ LET order == sorted_desc([k \in 1..Len(sections) |-> sections[k].similarity_score])
       IN  sections' = [k \in 1..Len(sections) |-> sections[order[k]]]
    /\ ranked_sections' = [k \in 1..Len(sections) |-> k]
    /\ i' = 0
    /\ pc' = "sorted"
    /\ UNCHANGED <<query_vars, query_analysis, model, query_embedding,
                   runs, previous, subsection_results, weights, results, scoring_vars, metrics, cache_vars>>

\* A faulty step for C27: the sort is reached inside the scoring loop, after the
\* first score has been written.
SortInsideLoop ==
    /\ pc = "analyzed"
    /\ i >= 1
    /\ ranked_sections' = sorted_desc([k \in 1..Len(sections) |-> sections[k].similarity_score])
    /\ i' = 0
    /\ pc' = "sorted"
    /\ UNCHANGED <<query_vars, query_analysis, model, query_embedding, sections,
                   runs, previous, subsection_results, weights, results, scoring_vars, metrics, cache_vars>>

\* ranked_sections = sorted(sections, key=similarity_score, reverse=True): the
\* new list holds the same records, here by their position in sections.
SortSections ==
    /\ pc = "analyzed"
    /\ i = Len(sections)
    /\ ranked_sections' = sorted_desc([k \in 1..Len(sections) |-> sections[k].similarity_score])
    /\ i' = 0
    /\ pc' = "sorted"
    /\ UNCHANGED <<query_vars, query_analysis, model, query_embedding, sections,
                   runs, previous, subsection_results, weights, results, scoring_vars, metrics, cache_vars>>

\* for i, section in enumerate(ranked_sections): section['importance_rank'] = i + 1
AssignRank ==
    /\ pc = "sorted"
    /\ i < Len(ranked_sections)
    /\ sections' = [sections EXCEPT ![ranked_sections[i + 1]].importance_rank = i + 1]
    /\ i' = i + 1
    /\ UNCHANGED <<pc, query_vars, query_analysis, model, query_embedding, ranked_sections,
                   runs, previous, subsection_results, weights, results, scoring_vars, metrics, cache_vars>>

\* return ranked_sections
ReturnRanked ==
    /\ pc = "sorted"
    /\ i = Len(ranked_sections)
    /\ pc' = "done"
    /\ runs' = runs + 1
    /\ UNCHANGED <<query_vars, query_analysis, model, query_embedding, sections,
                   ranked_sections, i, previous, subsection_results, weights, results, scoring_vars, metrics, cache_vars>>

\* The caller calls analyze_sections again on the same list with the same
\* persona and task; previous keeps what the run before wrote.
Rerun ==
    /\ pc = "done"
    /\ runs < MaxRuns
    /\ previous' = sections
    /\ pc' = "start"
    /\ i' = 0
    /\ UNCHANGED <<query_vars, query_analysis, model, query_embedding, sections,
                   ranked_sections, runs, subsection_results, weights, results, scoring_vars, metrics, cache_vars>>

Next ==
    \/ AnalyzeQuery
    \/ ScoreSection
    \/ ScoreRaises
    \/ SortSections
    \/ AssignRank
    \/ ReturnRanked
    \/ Rerun

Spec == Init /\ [][Next]_vars

\* ---- intelligent_subsection_analysis
\* The list the function is given: sections in the order of ranked_sections.
ranked_list == [k \in 1..Len(ranked_sections) |-> sections[ranked_sections[k]]]

\* A faulty slice for C7: sections[:6].
first_six_count == IF Len(ranked_sections) < 6 THEN Len(ranked_sections) ELSE 6

\* sections[:5]
analysed_count == IF Len(ranked_sections) < 5 THEN Len(ranked_sections) ELSE 5

InitExtract ==
    /\ pc = "x_start"
    /\ persona = ExtractQuery[1]
    /\ job_to_be_done = ExtractQuery[2]
    /\ pos_tags \in query_tags(persona, job_to_be_done)
    /\ query_analysis = None
    /\ model \in Models
    /\ query_embedding = query_embedding_of(model, persona, job_to_be_done)
    /\ sections \in PagedSectionLists(MaxRanked)
    /\ ranked_sections = [k \in 1..Len(sections) |-> k]
    /\ i = 0
    /\ runs = 0
    /\ previous = <<>>
    /\ subsection_results = <<>>
    /\ weights = <<>>
    /\ results = NoResults
    /\ IdleScoring
    /\ IdleMetrics
    /\ IdleCache

\* query_analysis = analyze_query_structure(persona, job_to_be_done); subsection_results = []
ExtractBegin ==
    /\ pc = "x_start"
    /\ query_analysis' = analyze_query_structure(persona, job_to_be_done, pos_tags)
    /\ subsection_results' = <<>>
    /\ i' = 0
    /\ pc' = "extract"
    /\ UNCHANGED <<query_vars, model, query_embedding, sections, ranked_sections,
                   runs, previous, weights, results, scoring_vars, metrics, cache_vars>>

\* One iteration of `for section in sections[:5]`.
ExtractSection ==
    /\ pc = "extract"
    /\ i < analysed_count
    /\ LET section == ranked_list[i + 1]
           refined_text == refined_text_of(section.text, query_analysis, query_embedding, model)
       IN  subsection_results' =
              IF refined_text # <<>>
              THEN Append(subsection_results,
                          [document |-> section.document,
                           page_number |-> section.page_number,
                           refined_text |-> refined_text])
              ELSE subsection_results
    /\ i' = i + 1
    /\ UNCHANGED <<pc, query_vars, query_analysis, model, query_embedding, sections,
                   ranked_sections, runs, previous, weights, results, scoring_vars, metrics, cache_vars>>

\* return subsection_results
ExtractReturn ==
    /\ pc = "extract"
    /\ i = analysed_count
    /\ pc' = "x_done"
    /\ UNCHANGED <<query_vars, query_analysis, ranking_vars, weights, results, scoring_vars, metrics, cache_vars>>

NextExtract ==
    \/ ExtractBegin
    \/ ExtractSection
    \/ ExtractReturn

SpecExtract == InitExtract /\ [][NextExtract]_vars

\* ---- validate_query_understanding
\* analyze_query_structure(test_case["persona"], test_case["job"]): one result
\* for each answer of the tagger.
analyses_of(test_case) ==
    {analyze_query_structure(test_case.persona, test_case.job, tagged) :
        tagged \in query_tags(test_case.persona, test_case.job)}

case_analyses ==
    <<analyses_of(test_cases[1]), analyses_of(test_cases[2]),
      analyses_of(test_cases[3]), analyses_of(test_cases[4])>>

InitValidate ==
    /\ pc = "v_start"
    /\ IdleQuery
    /\ query_analysis = None
    /\ IdleRanking
    /\ weights = <<>>
    /\ results = [total_tests |-> Len(test_cases), passed |-> 0, failed |-> 0, details |-> <<>>]
    /\ IdleScoring
    /\ IdleMetrics
    /\ IdleCache

\* One iteration of `for test_case in test_cases`; i counts the cases done.
ValidateCase ==
    /\ pc = "v_start"
    /\ i < Len(test_cases)
    /\ LET test_case == test_cases[i + 1]
       IN  \E analysis \in case_analyses[i + 1] :
              LET entities_found ==
                      Cardinality(analysis.core_entities \cap test_case.expected_entities)
                  entity_score ==
                      (entities_found * Scale) \div Cardinality(test_case.expected_entities)
                  constraints_found ==
                      Cardinality(analysis.constraints.positive
                                  \cap test_case.expected_constraints)
                  constraint_score ==
                      (constraints_found * Scale) \div Cardinality(test_case.expected_constraints)
                  overall_score == (entity_score + constraint_score) \div 2
                  passed == overall_score >= Dec(0, 70)
              IN  results' =
                     [results EXCEPT
                         !.details = Append(@, [name |-> test_case.name,
                                                entity_score |-> entity_score,
                                                constraint_score |-> constraint_score,
                                                overall_score |-> overall_score,
                                                passed |-> passed]),
                         !.passed = IF passed THEN @ + 1 ELSE @,
                         !.failed = IF passed THEN @ ELSE @ + 1]
    /\ i' = i + 1
    /\ UNCHANGED <<pc, query_vars, query_analysis, model, query_embedding, sections, ranked_sections,
                   runs, previous, subsection_results, weights, scoring_vars, metrics, cache_vars>>

\* return results
ValidateReturn ==
    /\ pc = "v_start"
    /\ i = Len(test_cases)
    /\ pc' = "v_done"
    /\ UNCHANGED <<query_vars, query_analysis, ranking_vars, weights, results, scoring_vars, metrics, cache_vars>>

NextValidate ==
    \/ ValidateCase
    \/ ValidateReturn

SpecValidate == InitValidate /\ [][NextValidate]_vars

\* ---- calculate_multi_factor_score and the sentence loop, one section at a time
ScoreModels == Models \cup {3}

\* The (persona, task) pairs a single section is scored for.
ScoreQueries ==
    PipelineQueries
    \cup {<<<<"G","u","e","s","t">>, <<"s","o","u","p">>>>, <<<<"S","t","u","d","e","n","t">>, <<"t","e",
        "a","m"," ","l","u","n","c","h">>>>,
          <<<<"C","o","o","k">>, <<"v","e","g","e","t","a","r","i","a","n"," ","d","i","n","n","e","r">>>>}

ScoreDocuments == {<<"D","i","n","n","e","r"," ","I","d","e","a","s"," ","-"," ","M","a","i","n",
    "s","_","1",".","p","d","f">>, <<"L","u","n","c","h"," ","S","i","d","e","s",".","p","d",
    "f">>, <<"N","o","t","e","s",".","p","d","f">>}

ScoreTitles == {<<"V","e","g","e","t","a","r","i","a","n"," ","L","a","s","a","g","n","a">>, <<"U",
    "n","k","n","o","w","n">>}

ScoreTexts ==
    {<<"A"," ","t","e","a","m"," ","d","i","n","n","e","r"," ","m","e","n","u","."," ","S","e",
        "r","v","e"," ","w","i","t","h"," ","s","a","l","a","d","."," ","N","o"," ","m","e","a",
        "t"," ","h","e","r","e","."," ","B","a","k","e"," ","i","t"," ","h","o","t",".">>,
     <<"M","e","a","t"," ","f","o","r"," ","l","u","n","c","h","."," ","P","l","a","i","n"," ",
         "r","i","c","e",".">>,
     <<>>,
     <<"S","t","u","d","e","n","t"," ","b","u","d","g","e","t"," ","m","e","n","u"," ","f","o",
         "r"," ","a"," ","g","r","o","u","p",".">>}

\* Documents and texts of the research, business and educational domains.
DomainDocuments ==
    {<<"K","e","y"," ","C","o","n","c","e","p","t","s"," ","-"," ","I","n","t","r","o","d","u",
        "c","t","i","o","n",".","p","d","f">>, <<"F","i","n","a","n","c","i","a","l"," ","A","n",
        "a","l","y","s","i","s"," ","R","e","s","u","l","t","s",".","p","d","f">>,
     <<"F","e","a","t","u","r","e","d"," ","S","t","a","r","t","e","r","s",".","p","d","f">>}

DomainTexts ==
    {<<"S","t","u","d","e","n","t"," ","r","e","s","e","a","r","c","h"," ","o","n"," ","r","e",
        "v","e","n","u","e",".">>,
     <<"B","u","s","i","n","e","s","s"," ","e","x","a","m"," ","p","r","e","p","a","r","a","t",
         "i","o","n",".">>,
     <<"E","x","a","m"," ","p","r","a","c","t","i","c","e",".">>,
     <<"S","t","u","d","e","n","t"," ","b","u","d","g","e","t"," ","m","e","n","u"," ","f","o",
         "r"," ","a"," ","g","r","o","u","p",".">>}

\* A text of six sentences, the best of them late in the text and two of them tied.
SentenceTexts ==
    {<<"V","e","g","e","t","a","r","i","a","n"," ","s","o","u","p","."," ","A"," ","t","e","a",
        "m"," ","l","u","n","c","h","."," ","P","l","a","i","n"," ","r","i","c","e","."," ","G",
        "r","o","u","p"," ","d","i","n","n","e","r"," ","f","o","r"," ","a"," ","t","e","a","m",
        "."," ","V","e","g","e","t","a","r","i","a","n"," ","t","e","a","m"," ","m","e","n","u",
        "."," ","T","e","a","m"," ","s","a","l","a","d",".">>}

\* The records given to the scorer: sections as extract_sections builds them,
\* and records without a text or without a title.
ScoreSections ==
    {section_data(d, 1, t, x) : d \in ScoreDocuments, t \in ScoreTitles, x \in ScoreTexts}
    \cup {section_data(d, 1, <<"U","n","k","n","o","w","n">>, x) : d \in DomainDocuments, x \in DomainTexts}
    \cup {section_data(<<"N","o","t","e","s",".","p","d","f">>, 1, <<"U","n","k","n","o","w",
        "n">>, x) : x \in SentenceTexts}
    \cup {malformed_section,
          [document |-> <<"N","o","t","e","s",".","p","d","f">>, page_number |-> 1,
           text |-> <<"A"," ","t","e","a","m"," ","d","i","n","n","e","r"," ","m","e","n","u",
               ".">>, similarity_score |-> 0, importance_rank |-> 0]}

InitScore ==
    /\ pc = "s_start"
    /\ \E q \in ScoreQueries :
          /\ persona = q[1]
          /\ job_to_be_done = q[2]
          /\ pos_tags \in query_tags(q[1], q[2])
    /\ query_analysis = analyze_query_structure(persona, job_to_be_done, pos_tags)
    /\ model \in ScoreModels
    /\ query_embedding \in {query_embedding_of(model, persona, job_to_be_done), <<0, 0>>}
    /\ scored_section \in ScoreSections
    /\ score_parts = NoScore
    /\ sentence_scores = <<>>
    /\ refined = <<>>
    /\ IdleMetrics
    /\ IdleCache
    /\ sections = <<>>
    /\ ranked_sections = <<>>
    /\ i = 0
    /\ runs = 0
    /\ previous = <<>>
    /\ subsection_results = <<>>
    /\ weights = <<>>
    /\ results = NoResults

\* calculate_multi_factor_score(section, query_analysis, query_embedding, model)
ScoreOne ==
    /\ pc = "s_start"
    /\ score_parts' = score_outcome(scored_section, query_analysis, query_embedding, model)
    /\ pc' = "scored"
    /\ UNCHANGED <<query_vars, query_analysis, ranking_vars, weights, results,
                   scored_section, sentence_scores, refined, metrics, cache_vars>>

\* intelligent_subsection_analysis on the section, from text = section['text']
\* to the join of the selected sentences: text = section['text'] raises
\* KeyError on a record without text.  (Scores that are nan are all nan, and
\* nan > 0 is False: no sentence is selected then.)
ScoreSentences ==
    /\ pc = "s_start"
    /\ IF "text" \in DOMAIN scored_section
       THEN LET sentences == sent_tokenize(scored_section.text)
                scores == [k \in 1..Len(sentences) |->
                              sentence_score(sentences[k], query_analysis, query_embedding, model)]
            IN  /\ sentence_scores' = scores
                /\ refined' =
                      join_sentences(sentences,
                                     selected_sentences(top_sentences(scores), scores), 1)
                /\ pc' = "sentences_scored"
       ELSE /\ sentence_scores' = <<>>
            /\ refined' = <<>>
            /\ pc' = "sentences_raised"
    /\ UNCHANGED <<query_vars, query_analysis, ranking_vars, weights, results,
                   scored_section, score_parts, metrics, cache_vars>>

NextScore ==
    \/ ScoreOne
    \/ ScoreSentences

SpecScore == InitScore /\ [][NextScore]_vars

\* ---- calculate_confidence_score and generate_performance_metrics
min(a, b) == IF a < b THEN a ELSE b
max(a, b) == IF a > b THEN a ELSE b

\* sum(values) of a list of numbers
RECURSIVE sum(_)
sum(values) == IF values = <<>> THEN 0 ELSE Head(values) + sum(Tail(values))

\* seq[:n]
first(seq, n) == SubSeq(seq, 1, min(n, Len(seq)))

calculate_confidence_score(section, qa) ==
    LET text == lower(Concat2(section.section_title, section.text))
        title == lower(section.section_title)
        document == lower(section.document)
        text_length == Len(section.text)
        confidence_factors ==
            (IF AnyIn(qa.core_entities, title) THEN Dec(0, 30) ELSE 0)
            + hits(qa.constraints.positive, text) * Dec(0, 20)
            - hits(qa.constraints.negative, text) * Dec(0, 30)
            + (IF Contains(<<"m","a","i","n","s">>, document) /\ Contains(<<"f","o","o","d"," ","c","o","n",
                "t","r","a","c","t","o","r">>, lower(qa.persona))
               THEN Dec(0, 20) ELSE 0)
            + (IF 100 <= text_length /\ text_length <= 1000 THEN Dec(0, 10) ELSE 0)
    IN  min(Dec(1, 0), max(0, confidence_factors))

generate_performance_metrics(ranked, qa) ==
    IF ranked = <<>> THEN [NoMetrics EXCEPT !.total_sections = 0]
    ELSE LET top_ten == first(ranked, 10)
             confidences == [k \in 1..Len(top_ten) |-> calculate_confidence_score(top_ten[k], qa)]
             unique_docs == Cardinality({top_ten[k].document : k \in 1..Len(top_ten)})
             top_five == first(ranked, 5)
             satisfied_constraints ==
                 sum([k \in 1..Len(top_five) |->
                         hits(qa.constraints.positive,
                              lower(Concat2(top_five[k].section_title, top_five[k].text)))])
             total_constraints == Cardinality(qa.constraints.positive)
         IN  [total_sections |-> Len(ranked),
              avg_confidence |-> sum(confidences) \div Len(confidences),
              domain_coverage |-> (unique_docs * Scale) \div min(10, Len(ranked)),
              constraint_satisfaction |->
                  IF total_constraints > 0
                  THEN (satisfied_constraints * Scale) \div total_constraints
                  ELSE 0]

\* The (persona, task) pairs metrics are generated for.
MetricsQueries == PipelineQueries \cup {<<<<"G","u","e","s","t">>, <<"s","o","u","p">>>>}

\* A section whose text has more than 100 characters.
long_section ==
    section_data(<<"D","i","n","n","e","r"," ","I","d","e","a","s"," ","-"," ","M","a","i","n","s",
        "_","2",".","p","d","f">>, 1, <<"T","e","a","m"," ","D","i","n","n","e","r">>,
                 <<"A"," ","t","e","a","m"," ","d","i","n","n","e","r"," ","m","e","n","u"," ","f",
                     "o","r"," ","a"," ","l","a","r","g","e"," ","g","r","o","u","p","."," ","V",
                     "e","g","e","t","a","r","i","a","n"," ","l","a","s","a","g","n","a"," ","w",
                     "i","t","h"," ","s","a","l","a","d"," ","a","n","d"," ","b","r","e","a","d",
                     "."," ","B","a","k","e"," ","i","t"," ","h","o","t"," ","a","n","d"," ","s",
                     "e","r","v","e"," ","w","a","r","m",".">>)

\* Lists of more than ten sections.
LongLists ==
    {[k \in 1..n |-> IF k = 11 THEN long_section ELSE SectionCatalog[(k % 3) + 1]] :
        n \in 10..12}

\* The ranked lists metrics are generated for.
MetricsLists == SectionLists(MaxListed) \cup LongLists

InitMetrics ==
    /\ pc = "m_start"
    /\ \E q \in MetricsQueries :
          /\ persona = q[1]
          /\ job_to_be_done = q[2]
          /\ pos_tags \in query_tags(q[1], q[2])
    /\ query_analysis = analyze_query_structure(persona, job_to_be_done, pos_tags)
    /\ model = 1
    /\ query_embedding = EmbeddingVectors[1]
    /\ sections \in MetricsLists
    /\ ranked_sections = [k \in 1..Len(sections) |-> k]
    /\ i = 0
    /\ runs = 0
    /\ previous = <<>>
    /\ subsection_results = <<>>
    /\ weights = <<>>
    /\ results = NoResults
    /\ IdleScoring
    /\ IdleMetrics
    /\ IdleCache

\* metrics = generate_performance_metrics(ranked_sections, query_analysis)
GenerateMetrics ==
    /\ pc = "m_start"
    /\ metrics' = generate_performance_metrics(ranked_list, query_analysis)
    /\ pc' = "m_done"
    /\ UNCHANGED <<query_vars, query_analysis, ranking_vars, weights, results, scoring_vars,
                   cache_vars>>

NextMetrics == GenerateMetrics

SpecMetrics == InitMetrics /\ [][NextMetrics]_vars

\* ---- get_cached_embedding
\* hashlib.md5(text.encode()).hexdigest(): a digest has a fixed length, so
\* distinct texts can have the same digest ("soup" and "seed" do here).
md5(text) == IF text = <<>> THEN <<0, "">> ELSE <<Len(text), Head(text)>>

\* A faulty body for C28: the table is not consulted, the text is encoded at
\* every miss of the wrapper and the entry written again.
cached_embedding_always_encoded(table, text, m) ==
    LET text_hash == md5(text)
        encoded == encode(m, text)
    IN  IF encoded.raised
        THEN [table |-> table, encoded |-> TRUE, raised |-> TRUE, vector |-> <<0, 0>>]
        ELSE [table |-> [d \in DOMAIN table \cup {text_hash} |->
                            IF d = text_hash THEN encoded.vector ELSE table[d]],
              encoded |-> TRUE, raised |-> FALSE, vector |-> encoded.vector]

\* The body of get_cached_embedding on the table _embedding_cache: the table
\* it leaves, whether model.encode was invoked, and the vector it returns
\* unless encode raised.
cached_embedding(table, text, m) ==
    LET text_hash == md5(text)
        encoded == encode(m, text)
    IN  IF text_hash \in DOMAIN table
        THEN [table |-> table, encoded |-> FALSE, raised |-> FALSE, vector |-> table[text_hash]]
        ELSE IF encoded.raised
        THEN [table |-> table, encoded |-> TRUE, raised |-> TRUE, vector |-> <<0, 0>>]
        ELSE [table |-> [d \in DOMAIN table \cup {text_hash} |->
                            IF d = text_hash THEN encoded.vector ELSE table[d]],
              encoded |-> TRUE, raised |-> FALSE, vector |-> encoded.vector]

InitCache ==
    /\ pc = "c_ready"
    /\ IdleQuery
    /\ query_analysis = None
    /\ IdleRanking
    /\ weights = <<>>
    /\ results = NoResults
    /\ IdleScoring
    /\ IdleMetrics
    /\ IdleCache

\* get_cached_embedding(text, model) behind @lru_cache(maxsize): a call whose
\* (text, model) the wrapper holds returns the held vector and makes the entry
\* the most recent; any other call runs the body, and unless the body raised the
\* wrapper keeps the vector, dropping its least recent entry when it is full.
GetCachedEmbedding ==
    /\ pc = "c_ready"
    /\ calls < MaxCalls
    /\ \E text \in CacheTexts, m \in Models \cup {3} :
          LET held == {k \in 1..Len(lru_entries) :
                          lru_entries[k].text = text /\ lru_entries[k].model = m}
          IN  IF held # {}
              THEN LET k == CHOOSE n \in held : TRUE
                   IN  /\ lru_entries' = SubSeq(lru_entries, 1, k - 1)
                                         \o SubSeq(lru_entries, k + 1, Len(lru_entries))
                                         \o <<lru_entries[k]>>
                       /\ returned' = [text |-> text, model |-> m, raised |-> FALSE,
                                       vector |-> lru_entries[k].vector, served_by |-> "lru"]
                       /\ UNCHANGED <<embedding_cache, encode_calls>>
              ELSE LET body == cached_embedding(embedding_cache, text, m)
                       entry == [text |-> text, model |-> m, vector |-> body.vector]
                   IN  /\ embedding_cache' = body.table
                       /\ encode_calls' =
                             IF body.encoded
                             THEN [encode_calls EXCEPT ![text] = @ + 1]
                             ELSE encode_calls
                       /\ lru_entries' =
                             IF body.raised THEN lru_entries
                             ELSE IF Len(lru_entries) >= maxsize
                             THEN Tail(lru_entries) \o <<entry>>
                             ELSE lru_entries \o <<entry>>
                       /\ returned' = [text |-> text, model |-> m, raised |-> body.raised,
                                       vector |-> body.vector,
                                       served_by |-> IF body.encoded THEN "encode" ELSE "table"]
    /\ calls' = calls + 1
    /\ UNCHANGED <<pc, query_vars, query_analysis, ranking_vars, weights, results, scoring_vars,
                   metrics>>

NextCache == GetCachedEmbedding

SpecCache == InitCache /\ [][NextCache]_vars

\* =================================================================== claims
\* ---- C1
\* C1: for every structured query (any entity count, any numbers of positive and
\* negative constraints, any urgency) the four weights calculate_dynamic_weights
\* returns sum to 1.0, whichever adjustment rules fired.
WeightsSumToOne ==
    pc = "w_done" =>
        /\ Len(weights) = 4
        /\ weights[1] + weights[2] + weights[3] + weights[4] = Scale

\* All three kinds of rule fired: few entities, many constraints, high urgency.
AllRulesFired ==
    /\ pc = "w_done"
    /\ Cardinality(query_analysis.core_entities) < 3
    /\ Cardinality(query_analysis.constraints.positive)
       + Cardinality(query_analysis.constraints.negative) > 3
    /\ query_analysis.context.urgency = "high"
    /\ weights = <<Dec(0, 10), Dec(0, 50), Dec(0, 25), Dec(0, 15)>>

\* ---- C2
\* The score of a section under the weights calculate_dynamic_weights derives
\* from the analysis of the running query.
score_under_dynamic_weights(section) ==
    LET c == score_components(section, query_analysis, query_embedding, model)
    IN  final_score(calculate_dynamic_weights(query_analysis),
                    c.semantic, c.keyword, c.title, c.penalty, c.priority)

\* C2: the semantic, keyword, title and penalty weights the scorer applies to a
\* section are the weights calculate_dynamic_weights derives from the query's
\* analysis: every score analyze_sections wrote is the score under those weights.
ScoredWithDynamicWeights ==
    pc = "sorted" =>
        \A k \in 1..Len(sections) :
            sections[k].similarity_score = score_under_dynamic_weights(sections[k])

\* ---- C3
score_at(k) == sections[ranked_sections[k]].similarity_score

\* C3: after analyze_sections returns on a list of n sections, the returned list
\* is in non-increasing order of similarity_score and the section at 0-based
\* position i has importance_rank i+1, so the ranks are exactly 1..n, each once.
RankedDescending ==
    pc = "done" =>
        /\ Len(ranked_sections) = Len(sections)
        /\ {ranked_sections[k] : k \in 1..Len(ranked_sections)} = 1..Len(sections)
        /\ \A a, b \in 1..Len(ranked_sections) : a < b => score_at(a) >= score_at(b)
        /\ \A a \in 1..Len(ranked_sections) : sections[ranked_sections[a]].importance_rank = a
        /\ \A r \in 1..Len(sections) :
              Cardinality({k \in 1..Len(sections) : sections[k].importance_rank = r}) = 1

\* A returned list of three sections whose order is not the input order.
Reordered ==
    /\ pc = "done"
    /\ Len(sections) >= 3
    /\ \E a \in 1..Len(ranked_sections) : ranked_sections[a] # a
    /\ \E a, b \in 1..Len(ranked_sections) : score_at(a) > score_at(b)

\* ---- C4
\* C4: of two sections with identical scores, the one earlier in the input list
\* receives the lower importance_rank.
TiesKeepInputOrder ==
    pc = "done" =>
        \A a, b \in 1..Len(sections) :
            (a < b /\ sections[a].similarity_score = sections[b].similarity_score)
                => sections[a].importance_rank < sections[b].importance_rank

\* Two sections tie and a third, later one outranks them both.
TieRanked ==
    /\ pc = "done"
    /\ \E a, b, c \in 1..Len(sections) :
          /\ a < b
          /\ b < c
          /\ sections[a].similarity_score = sections[b].similarity_score
          /\ sections[c].similarity_score > sections[a].similarity_score
          /\ sections[c].importance_rank = 1
          /\ sections[a].importance_rank = 2
          /\ sections[b].importance_rank = 3

\* ---- C5
\* C5: scoring and ranking are deterministic: a second run of analyze_sections on
\* the same list with the same persona and task gives every section the score
\* and the importance_rank of the run before, although that run already wrote
\* both into the records.
RerunSameRanks ==
    /\ (pc = "analyzed" /\ runs >= 1) =>
           \A k \in 1..i : sections[k].similarity_score = previous[k].similarity_score
    /\ (pc = "done" /\ runs >= 2) =>
           \A k \in 1..Len(sections) :
               /\ sections[k].similarity_score = previous[k].similarity_score
               /\ sections[k].importance_rank = previous[k].importance_rank

\* A second run has returned on a list whose first run reordered it and wrote a
\* score other than 0.
SecondRunDone ==
    /\ pc = "done"
    /\ runs = 2
    /\ Len(sections) >= 2
    /\ previous[1].importance_rank # 1
    /\ previous[1].similarity_score # 0
    /\ sections = previous

\* ---- C6
\* The section at position p of the list has a sentence that scores above 0.
has_positive_sentence(p) ==
    LET sentences == sent_tokenize(sections[p].text)
    IN  \E k \in 1..Len(sentences) :
            sentence_score(sentences[k], query_analysis, query_embedding, model) > 0

has_zero_sentence(p) ==
    LET sentences == sent_tokenize(sections[p].text)
    IN  \E k \in 1..Len(sentences) :
            sentence_score(sentences[k], query_analysis, query_embedding, model) = 0

has_record(p) ==
    \E k \in 1..Len(subsection_results) : subsection_results[k].page_number = p

\* C6: intelligent_subsection_analysis never returns a record whose refined_text
\* is empty: an analysed section produces a record if and only if one of its
\* three highest-scoring sentences (that is, its best sentence) scores above 0;
\* a section whose every sentence scores <= 0, or without sentences, produces none.
NoEmptyRefinedText ==
    pc \in {"extract", "x_done"} =>
        /\ \A k \in 1..Len(subsection_results) : subsection_results[k].refined_text # <<>>
        /\ \A p \in 1..i : has_record(p) <=> has_positive_sentence(p)

\* The function has returned after omitting a section whose best sentence
\* scores exactly 0 and one without sentences, and keeping another.
SectionsOmitted ==
    /\ pc = "x_done"
    /\ \E p, q, r \in 1..i :
          /\ has_zero_sentence(p)
          /\ ~has_record(p)
          /\ sections[q].text = <<>>
          /\ ~has_record(q)
          /\ has_record(r)

\* ---- C7
\* C7: intelligent_subsection_analysis returns at most 5 records, at most one per
\* section, each with the document and page_number of one of the first five
\* sections of its input, in the order of those sections; a section at position
\* 6 or later never contributes a record.  (The page of a section is its position.)
RecordsFromFirstFive ==
    pc \in {"extract", "x_done"} =>
        /\ Len(subsection_results) <= 5
        /\ \A k \in 1..Len(subsection_results) :
              LET p == subsection_results[k].page_number
              IN  /\ p \in 1..5
                  /\ p <= Len(sections)
                  /\ subsection_results[k].document = sections[p].document
        /\ \A a, b \in 1..Len(subsection_results) :
              a < b => subsection_results[a].page_number < subsection_results[b].page_number

\* The function has returned five records on a list whose sixth section has a
\* sentence that scores above 0.
SixthSectionIgnored ==
    /\ pc = "x_done"
    /\ Len(sections) >= 6
    /\ has_positive_sentence(6)
    /\ Len(subsection_results) = 5

\* ---- C8
\* sub is a contiguous part of s.
Occurs(sub, s) == \E a \in 1..Len(s) : \E b \in a..Len(s) : SubSeq(s, a, b) = sub

query_text_lower == lower(Concat2(persona, job_to_be_done))

\* C8: if the lowercased text contains "dinner" or "evening" the negative set
\* contains breakfast, lunch, morning and afternoon; if it contains "budget" or
\* "affordable" it contains luxury, premium, expensive and high-end; if it
\* contains "vegetarian" or "vegan" it contains meat, beef, pork, chicken and
\* fish; whether or not those words occur in the text.
ContextNegativesAdded ==
    pc = "analyzed" =>
        LET negative == query_analysis.constraints.negative
        IN  /\ (Occurs(<<"d","i","n","n","e","r">>, query_text_lower) \/ Occurs(<<"e","v","e","n","i","n",
                   "g">>, query_text_lower))
                  => {<<"b","r","e","a","k","f","a","s","t">>, <<"l","u","n","c","h">>, <<"m","o","r",
                         "n","i","n","g">>, <<"a","f","t","e","r","n","o","o","n">>} \subseteq negative
            /\ (Occurs(<<"b","u","d","g","e","t">>, query_text_lower) \/ Occurs(<<"a","f","f","o","r","d",
                   "a","b","l","e">>, query_text_lower))
                  => {<<"l","u","x","u","r","y">>, <<"p","r","e","m","i","u","m">>, <<"e","x","p","e",
                         "n","s","i","v","e">>, <<"h","i","g","h","-","e","n","d">>} \subseteq negative
            /\ (Occurs(<<"v","e","g","e","t","a","r","i","a","n">>, query_text_lower) \/ Occurs(<<"v","e",
                   "g","a","n">>, query_text_lower))
                  => {<<"m","e","a","t">>, <<"b","e","e","f">>, <<"p","o","r","k">>, <<"c","h","i","c",
                         "k","e","n">>, <<"f","i","s","h">>} \subseteq negative

\* The task is "budgets vegans": the triggers occur inside longer words only,
\* none of the implied words occurs, and the negative set is the nine of them.
ImpliedWithoutOccurring ==
    /\ pc = "analyzed"
    /\ job_to_be_done = <<"b","u","d","g","e","t","s"," ","v","e","g","a","n","s">>
    /\ ~Occurs(<<"e","x","p","e","n","s","i","v","e">>, query_text_lower)
    /\ ~Occurs(<<"m","e","a","t">>, query_text_lower)
    /\ query_analysis.constraints.negative =
          {<<"l","u","x","u","r","y">>, <<"p","r","e","m","i","u","m">>, <<"e","x","p","e","n","s",
              "i","v","e">>, <<"h","i","g","h","-","e","n","d">>,
           <<"m","e","a","t">>, <<"b","e","e","f">>, <<"p","o","r","k">>, <<"c","h","i","c","k","e",
               "n">>, <<"f","i","s","h">>}

\* ---- C9
\* The words an alternative of a pattern stands for: the alternative itself,
\* or, with one ".?" in it, the alternative without it and with any one
\* character of the text in its place.
matches_alternative(alt, w) ==
    IF \A k \in 1..Len(alt) : alt[k] # ".?" THEN w = alt
    ELSE LET gap == CHOOSE k \in 1..Len(alt) : alt[k] = ".?"
         IN  \/ w = SubSeq(alt, 1, gap - 1) \o SubSeq(alt, gap + 1, Len(alt))
             \/ /\ Len(w) = Len(alt)
                /\ \A k \in (1..Len(alt)) \ {gap} : w[k] = alt[k]

\* Position a of s starts a word or follows a non-word character, and
\* position b ends one likewise, with respect to the characters of s[a..b].
is_whole_word(s, a, b) ==
    /\ (IsWordChar(s[a]) # (a > 1 /\ IsWordChar(s[a - 1])))
    /\ (IsWordChar(s[b]) # (b < Len(s) /\ IsWordChar(s[b + 1])))

\* Every part of s that is a whole word and that a pattern of the catalog stands for.
catalog_words(patterns, s) ==
    {SubSeq(s, ab[1], ab[2]) :
        ab \in {x \in (1..Len(s)) \X (1..Len(s)) :
                   /\ x[1] <= x[2]
                   /\ is_whole_word(s, x[1], x[2])
                   /\ \E k \in 1..Len(patterns) : \E n \in 1..Len(patterns[k]) :
                          matches_alternative(patterns[k][n], SubSeq(s, x[1], x[2]))}}

\* C9: analyze_query_structure returns in constraints.positive every term of the
\* positive catalog that occurs as a whole word in the lowercased "persona task"
\* and nothing else; for "Food Contractor" and the vegetarian buffet-style dinner
\* task, positive contains vegetarian, gluten-free and corporate, negative
\* contains meat, breakfast and lunch, and context.group_size is large.
PositiveIsCatalogWords ==
    pc = "analyzed" =>
        /\ query_analysis.constraints.positive = catalog_words(positive_patterns, query_text_lower)
        /\ (persona = test_cases[1].persona /\ job_to_be_done = test_cases[1].job) =>
              /\ {<<"v","e","g","e","t","a","r","i","a","n">>, <<"g","l","u","t","e","n","-","f","r",
                     "e","e">>, <<"c","o","r","p","o","r","a","t","e">>}
                    \subseteq query_analysis.constraints.positive
              /\ {<<"m","e","a","t">>, <<"b","r","e","a","k","f","a","s","t">>, <<"l","u","n","c",
                     "h">>} \subseteq query_analysis.constraints.negative
              /\ query_analysis.context.group_size = "large"

\* The buffet query has been analysed.
BuffetQueryAnalysed ==
    /\ pc = "analyzed"
    /\ persona = test_cases[1].persona
    /\ job_to_be_done = test_cases[1].job
    /\ query_analysis.constraints.positive = {<<"v","e","g","e","t","a","r","i","a","n">>, <<"g","l","u",
           "t","e","n","-","f","r","e","e">>, <<"c","o","r","p","o","r","a","t","e">>}

\* ---- C10
\* C10: validate_query_understanding marks each of the four built-in cases as
\* passed, so passed = 4 and failed = 0.
AllCasesPass ==
    pc = "v_done" =>
        /\ results.passed = 4
        /\ results.failed = 0
        /\ \A k \in 1..Len(results.details) : results.details[k].passed

\* ---- C11
\* The lowercased title+text and document name of the scored section.
scored_text == lower(Concat2(scored_section.section_title, scored_section.text))
scored_document == lower(scored_section.document)

\* final recomputed from the component scores the call reported.
weighted_parts ==
    (Dec(0, 40) * score_parts.semantic + Dec(0, 30) * score_parts.keyword
     + Dec(0, 20) * score_parts.title - Dec(0, 10) * score_parts.penalty) \div Scale

\* C11: whenever the food-service branch is selected (the persona contains "food
\* contractor", or the lowercased title+text contains "menu") and the lowercased
\* document name contains "main", the priority bonus added to the score is 3.0.
MainsBonusIsThree ==
    (/\ pc = "scored"
     /\ has_fields(scored_section)
     /\ Occurs(<<"f","o","o","d"," ","c","o","n","t","r","a","c","t","o",
            "r">>, lower(persona)) \/ Occurs(<<"m","e","n","u">>, scored_text)
     /\ Occurs(<<"m","a","i","n">>, scored_document))
        => /\ ~score_parts.raised
           /\ score_parts.priority = Dec(3, 0)
           /\ (score_parts.final # NaN => score_parts.final = weighted_parts + Dec(3, 0))

\* "Dinner Ideas - Mains_1.pdf" scored for "Food Contractor", no "menu" in its text.
MainsScoredForContractor ==
    /\ pc = "scored"
    /\ has_fields(scored_section)
    /\ persona = <<"F","o","o","d"," ","C","o","n","t","r","a","c","t","o","r">>
    /\ scored_section.document = <<"D","i","n","n","e","r"," ","I","d","e","a","s"," ","-"," ","M","a",
           "i","n","s","_","1",".","p","d","f">>
    /\ ~Occurs(<<"m","e","n","u">>, scored_text)
    /\ score_parts.priority = Dec(3, 0)
    /\ score_parts.final # NaN

\* ---- C12
\* C12: scoring a section whose text is the empty string does not raise and uses
\* semantic = 0.0, keyword = 0.0, title = 0.0 and penalty = 0.0, so the final
\* score is exactly the priority bonus, for every query and every title.
\* (Stated for embeddings of non-zero norm; C13 is about the others.)
EmptyTextScoresBonusOnly ==
    (/\ pc = "scored"
     /\ has_fields(scored_section)
     /\ scored_section.text = <<>>
     /\ model # 3
     /\ norm(query_embedding) # 0) =>
        /\ ~score_parts.raised
        /\ score_parts.semantic = 0
        /\ score_parts.keyword = 0
        /\ score_parts.title = 0
        /\ score_parts.penalty = 0
        /\ score_parts.final = score_parts.priority

\* ---- C13
\* C13: for every section and query the score is a defined, finite number, also
\* when the query has no entities and no positive constraints, when the text is
\* empty and when an embedding has zero norm.
ScoreIsFinite ==
    (pc = "scored" /\ has_fields(scored_section)) =>
        /\ ~score_parts.raised
        /\ score_parts.semantic # NaN
        /\ score_parts.final # NaN

\* ---- C14
\* C14: calculate_multi_factor_score tolerates a record that lacks the text field
\* or the title field: it returns a score without raising.
MissingFieldTolerated ==
    (pc = "scored" /\ ~has_fields(scored_section)) => ~score_parts.raised

\* ---- C15
\* C15: in analyze_sections a failure while scoring one section never aborts the
\* batch: the run does not end with the exception, whatever the input list.
BatchNeverAborts == pc # "raised"

\* ---- C16
\* How many of the terms are a part of s.
count_in(terms, s) == Cardinality({t \in terms : Occurs(t, s)})

\* The score of a sentence without the semantic bonus.
lexical_score(sentence) ==
    count_in(query_analysis.core_entities, lower(sentence)) * Dec(1, 0)
    + count_in(query_analysis.constraints.positive, lower(sentence)) * Dec(1, 50)
    - count_in(query_analysis.constraints.negative, lower(sentence)) * Dec(2, 0)

\* C16: when the embedding call raises for a section's text the scorer uses
\* semantic = 0.0 and returns the rest of the score; when it raises for a
\* sentence the sentence's score gets a zero semantic contribution; the error
\* does not reach the caller.
EmbeddingFailureIsZero ==
    model = 2 =>
        /\ (pc = "scored" /\ has_fields(scored_section)) =>
              /\ ~score_parts.raised
              /\ score_parts.semantic = 0
              /\ score_parts.final =
                    ((Dec(0, 30) * score_parts.keyword + Dec(0, 20) * score_parts.title
                      - Dec(0, 10) * score_parts.penalty) \div Scale) + score_parts.priority
        /\ pc = "sentences_scored" =>
              LET sentences == sent_tokenize(scored_section.text)
              IN  /\ Len(sentence_scores) = Len(sentences)
                  /\ \A k \in 1..Len(sentences) :
                        sentence_scores[k] = lexical_score(sentences[k])

\* The sentences of the four-sentence text have been scored with the model
\* whose encode raises, for a query that matches some of them.
SentencesScoredWithoutModel ==
    /\ pc = "sentences_scored"
    /\ model = 2
    /\ Len(sentence_scores) = 4
    /\ \E a, b \in 1..4 : sentence_scores[a] > 0 /\ sentence_scores[b] < 0

\* ---- C17
\* C17: each of the four weights calculate_dynamic_weights returns is
\* non-negative, whichever adjustment rules fire.
WeightsNonNegative ==
    pc = "w_done" => \A k \in 1..4 : weights[k] >= 0

\* No entity and high urgency: two rules lowered the semantic weight.
SemanticWeightLowest ==
    /\ pc = "w_done"
    /\ query_analysis.core_entities = {}
    /\ query_analysis.constraints.positive = {}
    /\ Cardinality(query_analysis.constraints.negative) >= 3
    /\ query_analysis.context.urgency = "high"
    /\ weights[1] = Dec(0, 20)
    /\ \A k \in 1..4 : weights[k] > 0

\* ---- C18
\* The delta a rule adds to weight k when it fires.
rule_delta(fires, deltas, k) == IF fires THEN deltas[k] ELSE 0

total_terms ==
    Cardinality(query_analysis.core_entities) + Cardinality(query_analysis.constraints.positive)

\* x / total_terms, x itself when there are no terms.
per_term(x) == IF total_terms > 0 THEN x \div total_terms ELSE x

\* The keyword component before the context bonuses.
normalized_keyword ==
    per_term(count_in(query_analysis.core_entities, scored_text) * Dec(1, 0)
             + count_in(query_analysis.constraints.positive, scored_text) * Dec(1, 50))

ContextBonusesAdded ==
    (pc = "scored" /\ has_fields(scored_section)) =>
        score_parts.keyword - normalized_keyword =
            (IF query_analysis.context.group_size = "large"
                /\ \E w \in {<<"g","r","o","u","p">>, <<"s","h","a","r","e","d">>, <<"m","u","l","t","i",
                       "p","l","e">>, <<"t","e","a","m">>, <<"c","o","l","l","a","b","o","r","a","t",
                       "i","v","e">>,
                             <<"b","a","t","c","h">>, <<"c","o","r","p","o","r","a","t",
                                 "e">>} : Occurs(w, scored_text)
             THEN Dec(0, 50) ELSE 0)
            + (IF query_analysis.context.age_group = "young"
                  /\ \E w \in {<<"s","t","u","d","e","n","t">>, <<"y","o","u","t","h">>, <<"y","o","u",
                         "n","g">>, <<"c","o","l","l","e","g","e">>, <<"b","u","d","g","e","t">>,
                               <<"a","f","f","o","r","d","a","b","l","e">>} : Occurs(w, scored_text)
               THEN Dec(0, 30) ELSE 0)

\* Both bonuses were added for one section.
BothBonusesAdded ==
    /\ pc = "scored"
    /\ has_fields(scored_section)
    /\ query_analysis.context.group_size = "large"
    /\ query_analysis.context.age_group = "young"
    /\ score_parts.keyword = normalized_keyword + Dec(0, 80)

\* ---- C21
\* The triggers of the four domain branches, on the scored section.
food_trigger == Occurs(<<"f","o","o","d"," ","c","o","n","t","r","a","c","t","o",
    "r">>, lower(persona)) \/ Occurs(<<"m","e","n","u">>, scored_text)

research_trigger ==
    \E w \in {<<"r","e","s","e","a","r","c","h">>, <<"s","t","u","d","y">>, <<"a","n","a","l","y","s",
        "i","s">>, <<"l","i","t","e","r","a","t","u","r","e">>} : Occurs(w, scored_text)

business_trigger ==
    \E w \in {<<"r","e","v","e","n","u","e">>, <<"f","i","n","a","n","c","i","a","l">>, <<"b","u","s",
        "i","n","e","s","s">>, <<"i","n","v","e","s","t","m","e","n","t">>} : Occurs(w, scored_text)

educational_trigger ==
    \E w \in {<<"s","t","u","d","e","n","t">>, <<"s","t","u","d","y">>, <<"e","x","a","m">>, <<"p","r",
        "e","p","a","r","a","t","i","o","n">>} : Occurs(w, scored_text)

\* The grades of each branch, in the order the branch tries them: the words
\* looked for in the document name and the bonus awarded.
food_grades ==
    <<[words |-> {<<"m","a","i","n">>}, bonus |-> Dec(3, 0)],
      [words |-> {<<"e","n","t","r","e","e">>, <<"p","r","i","m","a","r","y">>, <<"f","e","a","t","u",
          "r","e","d">>}, bonus |-> Dec(2, 50)],
      [words |-> {<<"s","i","d","e">>}, bonus |-> Dec(1, 0)],
      [words |-> {<<"a","p","p","e","t","i","z","e","r">>, <<"s","t","a","r","t","e","r">>, <<"b","r",
          "e","a","k","f","a","s","t">>}, bonus |-> Dec(0, 50)]>>

research_grades ==
    <<[words |-> {<<"m","e","t","h","o","d","o","l","o","g","y">>, <<"m","e","t","h","o","d",
        "s">>}, bonus |-> Dec(2, 0)],
      [words |-> {<<"r","e","s","u","l","t","s">>, <<"f","i","n","d","i","n","g",
          "s">>}, bonus |-> Dec(1, 50)],
      [words |-> {<<"i","n","t","r","o","d","u","c","t","i","o","n">>, <<"b","a","c","k","g","r","o",
          "u","n","d">>}, bonus |-> Dec(1, 0)]>>

business_grades ==
    <<[words |-> {<<"f","i","n","a","n","c","i","a","l">>, <<"r","e","v","e","n","u",
        "e">>}, bonus |-> Dec(2, 0)],
      [words |-> {<<"s","t","r","a","t","e","g","y">>, <<"a","n","a","l","y","s","i",
          "s">>}, bonus |-> Dec(1, 50)],
      [words |-> {<<"o","v","e","r","v","i","e","w">>, <<"s","u","m","m","a","r",
          "y">>}, bonus |-> Dec(1, 0)]>>

educational_grades ==
    <<[words |-> {<<"k","e","y"," ","c","o","n","c","e","p","t","s">>, <<"i","m","p","o","r","t","a",
        "n","t">>}, bonus |-> Dec(2, 0)],
      [words |-> {<<"e","x","a","m","p","l","e","s">>, <<"p","r","a","c","t","i","c",
          "e">>}, bonus |-> Dec(1, 50)],
      [words |-> {<<"i","n","t","r","o","d","u","c","t","i","o","n">>, <<"b","a","c","k","g","r","o",
          "u","n","d">>}, bonus |-> Dec(1, 0)]>>

grade_matches(grade) == \E w \in grade.words : Occurs(w, scored_document)

\* The bonus of the first grade of the branch that matches the document name.
first_grade(grades) ==
    IF \A k \in 1..Len(grades) : ~grade_matches(grades[k]) THEN 0
    ELSE LET k == CHOOSE n \in 1..Len(grades) :
                      grade_matches(grades[n]) /\ \A e \in 1..(n - 1) : ~grade_matches(grades[e])
         IN  grades[k].bonus

\* C21: the priority bonus comes from exactly one domain branch, the first in
\* the order food-service, research, business, educational whose trigger holds,
\* also when that branch awards 0 for the document name; within the branch only
\* the first matching document-name grade is awarded, so the bonus is one of
\* 0, 0.5, 1.0, 1.5, 2.0, 2.5, 3.0.
PriorityFromOneBranch ==
    (pc = "scored" /\ has_fields(scored_section)) =>
        /\ score_parts.priority \in
              {0, Dec(0, 50), Dec(1, 0), Dec(1, 50), Dec(2, 0), Dec(2, 50), Dec(3, 0)}
        /\ score_parts.priority =
              IF food_trigger THEN first_grade(food_grades)
              ELSE IF research_trigger THEN first_grade(research_grades)
              ELSE IF business_trigger THEN first_grade(business_grades)
              ELSE IF educational_trigger THEN first_grade(educational_grades)
              ELSE 0

\* The food-service branch was selected by "menu" for a document it awards
\* nothing, while the educational branch, whose trigger holds too, would have
\* awarded 2.0; and the research branch was selected ahead of the business and
\* educational ones on another section.
EarlierBranchAwardsNothing ==
    /\ pc = "scored"
    /\ has_fields(scored_section)
    /\ ~Occurs(<<"f","o","o","d"," ","c","o","n","t","r","a","c","t","o","r">>, lower(persona))
    /\ Occurs(<<"m","e","n","u">>, scored_text)
    /\ educational_trigger
    /\ first_grade(food_grades) = 0
    /\ first_grade(educational_grades) = Dec(2, 0)
    /\ score_parts.priority = 0

\* ---- C22
\* How many sentences come before sentence k in the sorted list: those that
\* score more, and those before it in the text that score the same.
sentences_ahead(k) ==
    Cardinality({j \in 1..Len(sentence_scores) :
                    \/ sentence_scores[j] > sentence_scores[k]
                    \/ (sentence_scores[j] = sentence_scores[k] /\ j < k)})

\* The sentences refined_text is built from, as positions in the text.
included_sentences ==
    {k \in 1..Len(sentence_scores) : sentences_ahead(k) < 3 /\ sentence_scores[k] > 0}

\* The included sentence with n included sentences ahead of it.
included_at(n) ==
    LET k == CHOOSE c \in included_sentences : sentences_ahead(c) = n
    IN  sent_tokenize(scored_section.text)[k]

\* C22: refined_text is built from at most 3 sentences: the three highest-scoring
\* ones in non-increasing score order, ties in original sentence order, only
\* those that score strictly more than 0, joined by ". "; no sentence left out
\* of the top three scores strictly more than one that is included.
RefinedFromTopThree ==
    pc = "sentences_scored" =>
        /\ Cardinality(included_sentences) <= 3
        /\ \A k \in included_sentences :
              \A j \in 1..Len(sentence_scores) :
                  sentences_ahead(j) >= 3 => sentence_scores[j] <= sentence_scores[k]
        /\ Cardinality(included_sentences) = 0 => refined = <<>>
        /\ Cardinality(included_sentences) = 1 => refined = included_at(0)
        /\ Cardinality(included_sentences) = 2 =>
              refined = included_at(0) \o <<".", " ">> \o included_at(1)
        /\ Cardinality(included_sentences) = 3 =>
              refined = included_at(0) \o <<".", " ">> \o included_at(1)
                        \o <<".", " ">> \o included_at(2)

\* Of six sentences the fifth scores most and comes first, the first and the
\* sixth tie and the first is included, and the sixth, which scores above 0,
\* is left out.
LateSentenceFirst ==
    /\ pc = "sentences_scored"
    /\ Len(sentence_scores) = 6
    /\ included_sentences = {1, 4, 5}
    /\ sentences_ahead(5) = 0
    /\ sentences_ahead(4) = 1
    /\ sentence_scores[1] = sentence_scores[6]
    /\ sentence_scores[6] > 0
    /\ refined = <<"V","e","g","e","t","a","r","i","a","n"," ","t","e","a","m"," ","m","e","n","u",
           ".","."," ","G","r","o","u","p"," ","d","i","n","n","e","r"," ","f","o","r"," ","a",
           " ","t","e","a","m",".","."," ","V","e","g","e","t","a","r","i","a","n"," ","s","o","u","p",".">>

\* ---- C23
\* One of the words occurs in the lowercased "persona task".
query_has(words) == \E w \in words : Occurs(w, query_text_lower)

\* C23: urgency is normal by default, high when the text contains a
\* high-urgency keyword, and low only when it contains a low-urgency keyword and
\* no high-urgency one; complexity is medium by default, high when a
\* high-complexity keyword is present, and low only when a low-complexity
\* keyword is present and no high-complexity one.
HighLevelWins ==
    pc = "analyzed" =>
        LET urgent == query_has({<<"u","r","g","e","n","t">>, <<"a","s","a","p">>, <<"i","m","m","e","d",
            "i","a","t","e">>, <<"q","u","i","c","k","l","y">>})
            relaxed == query_has({<<"w","h","e","n","e","v","e","r">>, <<"n","o"," ","r","u","s",
                "h">>, <<"t","a","k","e"," ","t","i","m","e">>})
            deep == query_has({<<"c","o","m","p","r","e","h","e","n","s","i","v","e">>, <<"d","e","t",
                "a","i","l","e","d">>, <<"t","h","o","r","o","u","g","h">>, <<"c","o","m","p","l","e",
                "t","e">>})
            shallow == query_has({<<"b","r","i","e","f">>, <<"s","u","m","m","a","r","y">>, <<"o","v","e",
                "r","v","i","e","w">>, <<"b","a","s","i","c">>})
        IN  /\ query_analysis.context.urgency = "high" <=> urgent
            /\ query_analysis.context.urgency = "low" <=> (relaxed /\ ~urgent)
            /\ query_analysis.context.urgency = "normal" <=> (~relaxed /\ ~urgent)
            /\ query_analysis.context.complexity = "high" <=> deep
            /\ query_analysis.context.complexity = "low" <=> (shallow /\ ~deep)
            /\ query_analysis.context.complexity = "medium" <=> (~shallow /\ ~deep)

\* A task with keywords of both kinds, the low ones first, is high in both.
BothKindsOfKeyword ==
    /\ pc = "analyzed"
    /\ job_to_be_done = <<"b","r","i","e","f"," ","d","e","t","a","i","l","e","d"," ","w","h","e",
           "n","e","v","e","r"," ","u","r","g","e","n","t">>
    /\ query_analysis.context.urgency = "high"
    /\ query_analysis.context.complexity = "high"

\* ---- C24
\* C24: group_size is large if the lowercased persona+task text contains any of
\* corporate, team, group; otherwise small if it contains any of individual,
\* personal, single; otherwise null; age_group is young if it contains any of
\* student, youth, college, young; otherwise adult if it contains any of senior,
\* elderly, adult; otherwise null.
FirstKeywordGroupWins ==
    pc = "analyzed" =>
        /\ query_analysis.context.group_size =
              IF query_has({<<"c","o","r","p","o","r","a","t","e">>, <<"t","e","a","m">>, <<"g","r","o",
                  "u","p">>}) THEN "large"
              ELSE IF query_has({<<"i","n","d","i","v","i","d","u","a","l">>, <<"p","e","r","s","o","n",
                       "a","l">>, <<"s","i","n","g","l","e">>}) THEN "small"
              ELSE None
        /\ query_analysis.context.age_group =
              IF query_has({<<"s","t","u","d","e","n","t">>, <<"y","o","u","t","h">>, <<"c","o","l","l",
                  "e","g","e">>, <<"y","o","u","n","g">>}) THEN "young"
              ELSE IF query_has({<<"s","e","n","i","o","r">>, <<"e","l","d","e","r","l","y">>, <<"a","d",
                       "u","l","t">>}) THEN "adult"
              ELSE None

\* ---- C26
\* C26: the positive and negative constraint sets extract_constraints returns,
\* after the context-aware negative expansion, have no phrase in common.
ConstraintSetsDisjoint ==
    pc = "analyzed" =>
        query_analysis.constraints.positive \cap query_analysis.constraints.negative = {}

\* ---- C25
\* The positive constraints found in the title+text of at least one of the
\* first five sections of the ranked list.
constraints_found ==
    {c \in query_analysis.constraints.positive :
        \E k \in 1..Len(ranked_list) :
            k <= 5 /\ Occurs(c, lower(Concat2(ranked_list[k].section_title,
                                              ranked_list[k].text)))}

\* C25: generate_performance_metrics reports constraint_satisfaction as the
\* fraction of the query's positive constraints that are found in at least one
\* of the top 5 sections' title+text, so it lies in [0, 1] for every ranked list
\* and query, and is 0 when the query has no positive constraints or the list is
\* empty.
SatisfactionIsFraction ==
    pc = "m_done" =>
        /\ metrics.constraint_satisfaction >= 0
        /\ metrics.constraint_satisfaction <= Dec(1, 0)
        /\ metrics.constraint_satisfaction =
              IF ranked_list = <<>> \/ query_analysis.constraints.positive = {} THEN 0
              ELSE (Cardinality(constraints_found) * Scale)
                   \div Cardinality(query_analysis.constraints.positive)

\* ---- C27
\* Section k carries the score this run computes for it.
scored_this_run(k) ==
    /\ has_fields(sections[k])
    /\ sections[k].similarity_score =
          calculate_multi_factor_score(sections[k], query_analysis, query_embedding, model)

\* C27: in every run of analyze_sections the sort and the rank assignment happen
\* only after every section of the input has had its score written: the sorted
\* list is built and a rank is written only in a step taken when the scoring
\* loop has passed the last section; when the list is sorted every section
\* carries the score this run computes, no score changes after that, and when
\* the run returns every section has a rank as well.
RankedAfterAllScored ==
    [][/\ (\/ ranked_sections' # ranked_sections
           \/ \E k \in 1..Len(sections) :
                 sections'[k].importance_rank # sections[k].importance_rank)
          => (\/ pc = "analyzed" /\ i = Len(sections)
              \/ pc = "sorted")
       /\ (pc = "analyzed" /\ pc' = "sorted") =>
             \A k \in 1..Len(sections) : scored_this_run(k)
       /\ pc = "sorted" =>
             \A k \in 1..Len(sections) :
                 sections'[k].similarity_score = sections[k].similarity_score
       /\ pc' = "done" =>
             \A k \in 1..Len(sections) : sections'[k].importance_rank \in 1..Len(sections)]_vars

\* The first rank of a first run has been written: the three sections carry
\* scores other than the 0 they came with, and two of them no rank yet.
FirstRankWritten ==
    /\ pc = "sorted"
    /\ runs = 0
    /\ i = 1
    /\ Len(sections) = 3
    /\ \A k \in 1..3 : sections[k].similarity_score # 0
    /\ sections[ranked_sections[1]].importance_rank = 1
    /\ sections[ranked_sections[2]].importance_rank = 0
    /\ sections[ranked_sections[3]].importance_rank = 0

\* ---- C30
\* A section record without the two fields analyze_sections writes.
loaded_fields(section) ==
    [f \in DOMAIN section \ {"similarity_score", "importance_rank"} |-> section[f]]

\* C30: analyze_sections returns a permutation of its input, the same records,
\* none dropped and none duplicated; no step of it changes the order of the
\* input list or the document, page_number, section_title or text of a section:
\* only similarity_score and importance_rank are modified.
OnlyScoreAndRankWritten ==
    [][/\ Len(sections') = Len(sections)
       /\ \A k \in 1..Len(sections) : loaded_fields(sections'[k]) = loaded_fields(sections[k])
       /\ pc' = "done" =>
             /\ Len(ranked_sections') = Len(sections)
             /\ \A k \in 1..Len(sections) :
                   Cardinality({r \in 1..Len(ranked_sections') : ranked_sections'[r] = k}) = 1]_vars

\* A run has returned three different sections in an order other than the
\* input's, the input list still in the order of the catalog.
ReturnedInAnotherOrder ==
    /\ pc = "done"
    /\ runs = 1
    /\ ranked_sections = <<1, 3, 2>>
    /\ \A k \in 1..3 : loaded_fields(sections[k]) = loaded_fields(SectionCatalog[k])
    /\ sections[3].similarity_score > sections[2].similarity_score
    /\ sections[3].importance_rank = 2

\* ---- C29
\* The double 1.0.
F64_1_0 == <<134217728, 0>>

\* C29: the sum of the four weights before normalization is exactly 1.0 for
\* every combination of fired rules, so the normalizing division leaves every
\* weight unchanged.
SumExactlyOne ==
    [][pc = "f_adjusted" => (f64_total(weights) = F64_1_0 /\ weights' = weights)]_vars

\* The doubles 2^-52 and 2^-53.
F64_ulp == <<0, 32>>
F64_half_ulp == <<0, 16>>

\* |a - b|
f64_distance(a, b) == IF big_less(a, b) THEN big_sub(b, a) ELSE big_sub(a, b)

\* C29 as amended: before normalization the sum of the four weights is 1.0 up to
\* one rounding error: it is 1 - 2^-53, 1.0 or 1 + 2^-52; the normalizing
\* division never divides by zero, changes no weight by more than 2^-52 and
\* leaves every weight unchanged when the sum is exactly 1.0.
SumOneUpToRounding ==
    [][pc = "f_adjusted" =>
          /\ f64_total(weights) \in
                {big_sub(F64_1_0, F64_half_ulp), F64_1_0, big_add(F64_1_0, F64_ulp)}
          /\ f64_total(weights) # <<0, 0>>
          /\ \A k \in 1..4 : ~big_less(F64_ulp, f64_distance(weights'[k], weights[k]))
          /\ f64_total(weights) = F64_1_0 => weights' = weights]_vars

\* No rule fired: the sum was 0.9999999999999999 and the function returned
\* 0.4000000000000001, 0.30000000000000004, 0.20000000000000004 and
\* 0.10000000000000002.
BaseWeightsChanged ==
    /\ pc = "f_done"
    /\ Cardinality(query_analysis.core_entities) \in 3..5
    /\ query_analysis.context.urgency # "high"
    /\ weights = << <<53687091, 214748376>>, <<40265318, 429496736>>,
                    <<26843545, 644245100>>, <<13421772, 858993462>> >>

\* ---- C28
\* The step is a call of get_cached_embedding with this text.
called_with(text) == calls' = calls + 1 /\ returned'.text = text

\* The entries of the content-hash table are never removed or overwritten.
entries_kept ==
    \A d \in DOMAIN embedding_cache :
        d \in DOMAIN embedding_cache' /\ embedding_cache'[d] = embedding_cache[d]

\* A call with a text the table has an entry for returns the vector of the entry.
stored_vector_returned ==
    \A text \in CacheTexts :
        (called_with(text) /\ md5(text) \in DOMAIN embedding_cache)
            => /\ ~returned'.raised
               /\ returned'.vector = embedding_cache[md5(text)]

\* C28: after any sequence of get_cached_embedding calls the model's encode has
\* been invoked at most once per distinct text; entries of the content-hash
\* table are never removed or overwritten, and every later call with the same
\* text returns the vector stored at the first call, also after the LRU layer
\* has evicted that text.
EncodedOncePerText ==
    [][/\ \A text \in CacheTexts : encode_calls'[text] <= 1
       /\ entries_kept
       /\ stored_vector_returned]_vars

\* C28 as amended: encode is invoked for a text only in a call made while the
\* content-hash table has no entry for the text, and an invocation that returns
\* a vector makes the entry, so encode returns at most one vector per distinct
\* text (an invocation that raises stores nothing, and the next call with the
\* text invokes encode again); entries of the table are never removed or
\* overwritten, and every call with a text the table has an entry for returns
\* the stored vector, also after the LRU layer has evicted that text.
EncodedWhileNotStored ==
    [][/\ \A text \in CacheTexts :
             encode_calls'[text] # encode_calls[text] =>
                 /\ called_with(text)
                 /\ encode_calls'[text] = encode_calls[text] + 1
                 /\ md5(text) \notin DOMAIN embedding_cache
                 /\ ~returned'.raised =>
                        /\ md5(text) \in DOMAIN embedding_cache'
                        /\ embedding_cache'[md5(text)] = returned'.vector
       /\ entries_kept
       /\ stored_vector_returned]_vars

\* Three texts were encoded once each and the fourth call was served from the
\* table with the vector model 1 had stored for its text: the wrapper, which
\* holds two entries, had dropped that text.
ServedAfterEviction ==
    /\ calls = 4
    /\ Cardinality(DOMAIN embedding_cache) = 3
    /\ \A text \in CacheTexts \ {<<"s","e","e","d">>} : encode_calls[text] = 1
    /\ encode_calls[<<"s","e","e","d">>] = 0
    /\ returned.served_by = "table"
    /\ returned.text = <<"s","o","u","p">>
    /\ returned.model = 1
    /\ returned.vector = encode(1, <<"s","o","u","p">>).vector
    /\ returned.vector # <<0, 0>>
    /\ Len(lru_entries) = maxsize
====
